---------------------------- MODULE Spec2Model ----------------------------
(***************************************************************************)
(* A model of clox: scanner, single-pass compiler, hash table, string      *)
(* interning and the bytecode virtual machine.                             *)
(*                                                                         *)
(* Conventions.  A C pointer into an array is the 0-based index of the     *)
(* element; sequences are 1-based, so element i of a C array a is a[i+1].  *)
(* A heap object is named by its handle, its 1-based position in the VM's  *)
(* object list in allocation order; NULL is 0.  A C string is a sequence   *)
(* of one-character strings.  A double is the fraction as/den in lowest    *)
(* terms (den > 0).  A uint32_t hash is the pair <<high, low>> of its      *)
(* 16-bit halves.                                                          *)
(***************************************************************************)
EXTENDS Integers, Sequences, FiniteSets, TLC

VARIABLES
  vm,        \* the VM: stack, stackTop, frames, frameCount, globals, strings, objects
  source,    \* the source buffer handed to interpret / compile
  scanner,   \* Scanner: start, current, line
  parser,    \* Parser: current, previous, hadError, panicMode
  current,   \* the chain of Compiler frames, innermost last (<<>> is NULL)
  control,   \* the activations of the compiler's functions, innermost last
  out,       \* standard output, one entry per printed line
  err,       \* standard error, one entry per printed line
  pc,        \* where the driver is: "idle", "compile", "run"
  result,    \* what the last interpret call returned
  calls,     \* number of interpret / compile calls made so far
  hist,      \* observations of the call in progress (not program state)
  table,     \* the table exercised by the table operations
  shadow,    \* the map the table is compared with (not program state)
  ret        \* the value the last function of the compiler or table operation returned

vars == <<vm, source, scanner, parser, current, control, out, err, pc, result, calls,
          hist, table, shadow, ret>>

NULL == 0

(***************************************************************************)
(* Token kinds (scanner.h) and opcodes (chunk.h), numbered as the enums.   *)
(***************************************************************************)
TOKEN_LEFT_PAREN == 0
TOKEN_RIGHT_PAREN == 1
TOKEN_LEFT_BRACE == 2
TOKEN_RIGHT_BRACE == 3
TOKEN_COMMA == 4
TOKEN_DOT == 5
TOKEN_MINUS == 6
TOKEN_PLUS == 7
TOKEN_SEMICOLON == 8
TOKEN_SLASH == 9
TOKEN_STAR == 10
TOKEN_BANG == 11
TOKEN_BANG_EQUAL == 12
TOKEN_EQUAL == 13
TOKEN_EQUAL_EQUAL == 14
TOKEN_GREATER == 15
TOKEN_GREATER_EQUAL == 16
TOKEN_LESS == 17
TOKEN_LESS_EQUAL == 18
TOKEN_IDENTIFIER == 19
TOKEN_STRING == 20
TOKEN_NUMBER == 21
TOKEN_AND == 22
TOKEN_CLASS == 23
TOKEN_ELSE == 24
TOKEN_FALSE == 25
TOKEN_FOR == 26
TOKEN_FUN == 27
TOKEN_IF == 28
TOKEN_NIL == 29
TOKEN_OR == 30
TOKEN_PRINT == 31
TOKEN_RETURN == 32
TOKEN_SUPER == 33
TOKEN_THIS == 34
TOKEN_TRUE == 35
TOKEN_VAR == 36
TOKEN_WHILE == 37
TOKEN_ERROR == 38
TOKEN_EOF == 39

OP_CONSTANT == 0
OP_NIL == 1
OP_TRUE == 2
OP_FALSE == 3
OP_POP == 4
OP_GET_LOCAL == 5
OP_SET_LOCAL == 6
OP_GET_GLOBAL == 7
OP_DEFINE_GLOBAL == 8
OP_SET_GLOBAL == 9
OP_GET_UPVALUE == 10
OP_SET_UPVALUE == 11
OP_EQUAL == 12
OP_GREATER == 13
OP_LESS == 14
OP_ADD == 15
OP_SUBTRACT == 16
OP_MULTIPLY == 17
OP_DIVIDE == 18
OP_NOT == 19
OP_NEGATE == 20
OP_PRINT == 21
OP_JUMP == 22
OP_JUMP_IF_FALSE == 23
OP_LOOP == 24
OP_CALL == 25
OP_CLOSURE == 26
OP_CLOSE_UPVALUE == 27
OP_RETURN == 28

AsciiPrintable ==
  <<" ", "!", "\"", "#", "$", "%", "&", "'", "(", ")", "*", "+", ",", "-", ".", "/",
    "0", "1", "2", "3", "4", "5", "6", "7", "8", "9", ":", ";", "<", "=", ">", "?",
    "@", "A", "B", "C", "D", "E", "F", "G", "H", "I", "J", "K", "L", "M", "N", "O",
    "P", "Q", "R", "S", "T", "U", "V", "W", "X", "Y", "Z", "[", "\\", "]", "^", "_",
    "(grave)", "a", "b", "c", "d", "e", "f", "g", "h", "i", "j", "k", "l", "m", "n", "o",
    "p", "q", "r", "s", "t", "u", "v", "w", "x", "y", "z", "{", "|", "}", "~">>

Ord(c) ==
  IF c = "\n" THEN 10
  ELSE IF c = "\t" THEN 9
  ELSE IF c = "\r" THEN 13
  ELSE 31 + (CHOOSE i \in 1..Len(AsciiPrintable) : AsciiPrintable[i] = c)

UINT8_COUNT == 256
UINT8_MAX == 255
UINT16_MAX == 65535
FRAMES_MAX == 64
STACK_MAX == FRAMES_MAX * UINT8_COUNT

\* F(e) with e evaluated before F is entered, as C evaluates the statements
\* of a function body one after the other.
Strict(e, F(_)) == CHOOSE r \in {F(x) : x \in {e}} : TRUE

Min(a, b) == IF a < b THEN a ELSE b
Last(s) == s[Len(s)]
Front(s) == SubSeq(s, 1, Len(s) - 1)

(***************************************************************************)
(* Values.                                                                 *)
(***************************************************************************)
RECURSIVE Gcd(_, _)
Gcd(a, b) == IF b = 0 THEN a ELSE Gcd(b, a % b)

Abs(n) == IF n < 0 THEN -n ELSE n

\* The double n/d; d = 0 gives the infinities (n # 0) and NaN (n = 0).
Fraction(n, d) ==
  IF d = 0 THEN [as |-> (IF n > 0 THEN 1 ELSE IF n < 0 THEN -1 ELSE 0), den |-> 0]
  ELSE LET g == Gcd(Abs(n), Abs(d))
           s == IF d < 0 THEN -1 ELSE 1
       IN  [as |-> s * (n \div g), den |-> s * (d \div g)]

BOOL_VAL(b) == [type |-> "VAL_BOOL", as |-> (IF b THEN 1 ELSE 0), den |-> 1]
NIL_VAL == [type |-> "VAL_NIL", as |-> 0, den |-> 1]
\* The number value of the fraction f in lowest terms.
Number(f) == [type |-> "VAL_NUMBER", as |-> f.as, den |-> f.den]
NUMBER_VAL(n, d) == Number(Fraction(n, d))
OBJ_VAL(h) == [type |-> "VAL_OBJ", as |-> h, den |-> 1]

IS_BOOL(v) == v.type = "VAL_BOOL"
IS_NIL(v) == v.type = "VAL_NIL"
IS_NUMBER(v) == v.type = "VAL_NUMBER"
IS_OBJ(v) == v.type = "VAL_OBJ"
AS_BOOL(v) == v.as # 0
AS_OBJ(v) == v.as

IsNaN(v) == v.den = 0 /\ v.as = 0

\* a + b, a - b, a * b, a / b on doubles, as IEEE-754 defines them on the
\* infinities and NaN.
NumAdd(a, b) ==
  IF IsNaN(a) \/ IsNaN(b) THEN NUMBER_VAL(0, 0)
  ELSE IF a.den = 0 /\ b.den = 0 THEN (IF a.as = b.as THEN a ELSE NUMBER_VAL(0, 0))
  ELSE IF a.den = 0 THEN a
  ELSE IF b.den = 0 THEN b
  ELSE NUMBER_VAL(a.as * b.den + b.as * a.den, a.den * b.den)

NumNeg(a) == [type |-> "VAL_NUMBER", as |-> -a.as, den |-> a.den]

NumSub(a, b) == NumAdd(a, NumNeg(b))

NumMul(a, b) ==
  IF IsNaN(a) \/ IsNaN(b) THEN NUMBER_VAL(0, 0)
  ELSE NUMBER_VAL(a.as * b.as, a.den * b.den)

NumDiv(a, b) ==
  IF IsNaN(a) \/ IsNaN(b) THEN NUMBER_VAL(0, 0)
  ELSE IF b.den = 0 THEN (IF a.den = 0 THEN NUMBER_VAL(0, 0) ELSE NUMBER_VAL(0, 1))
  ELSE IF a.den = 0 THEN NUMBER_VAL(IF b.as < 0 THEN -a.as ELSE a.as, 0)
  ELSE NUMBER_VAL(a.as * b.den, a.den * b.as)

NumLess(a, b) ==
  IF IsNaN(a) \/ IsNaN(b) THEN FALSE
  ELSE IF a.den = 0 \/ b.den = 0
       THEN (IF a.den = 0 /\ b.den = 0 THEN a.as < b.as
             ELSE IF a.den = 0 THEN a.as < 0 ELSE b.as > 0)
  ELSE a.as * b.den < b.as * a.den

NumEq(a, b) == ~IsNaN(a) /\ ~IsNaN(b) /\ a.as = b.as /\ a.den = b.den

valuesEqual(a, b) ==
  IF a.type # b.type THEN FALSE
  ELSE IF a.type = "VAL_BOOL" THEN AS_BOOL(a) = AS_BOOL(b)
  ELSE IF a.type = "VAL_NIL" THEN TRUE
  ELSE IF a.type = "VAL_NUMBER" THEN NumEq(a, b)
  ELSE AS_OBJ(a) = AS_OBJ(b)

\* isFalsey as it would be if the number 0 were falsey as well.
isFalseyOrZero(v) ==
  IS_NIL(v) \/ (IS_BOOL(v) /\ ~AS_BOOL(v)) \/ (IS_NUMBER(v) /\ v.as = 0 /\ v.den = 1)

isFalsey(v) == IS_NIL(v) \/ (IS_BOOL(v) /\ ~AS_BOOL(v))

GROW_CAPACITY(capacity) == IF capacity < 8 THEN 8 ELSE capacity * 2

(***************************************************************************)
(* String hashing (FNV-1a, 32 bits kept as two 16-bit halves).             *)
(***************************************************************************)
\* Bit i of the byte x, and the exclusive or of two bytes.
Bit(x, i) == (x \div (2 ^ i)) % 2
XorByte(a, b) ==
    ((Bit(a, 0) + Bit(b, 0)) % 2)       + ((Bit(a, 1) + Bit(b, 1)) % 2) * 2
  + ((Bit(a, 2) + Bit(b, 2)) % 2) * 4   + ((Bit(a, 3) + Bit(b, 3)) % 2) * 8
  + ((Bit(a, 4) + Bit(b, 4)) % 2) * 16  + ((Bit(a, 5) + Bit(b, 5)) % 2) * 32
  + ((Bit(a, 6) + Bit(b, 6)) % 2) * 64  + ((Bit(a, 7) + Bit(b, 7)) % 2) * 128

\* hash ^= byte
HashXor(h, byte) == <<h[1], (h[2] \div 256) * 256 + XorByte(h[2] % 256, byte)>>

\* hash *= 16777619 (0x01000193), modulo 2^32
HashMul(h) ==
  LET lo == h[2] * 403
  IN  <<(h[1] * 403 + h[2] * 256 + (lo \div 65536)) % 65536, lo % 65536>>

\* The hash after the first n passes of the loop of hashString;
\* 2166136261 = 0x811C9DC5.
RECURSIVE HashUpTo(_, _)
HashUpTo(key, n) ==
  IF n = 0 THEN <<33052, 40389>>
  ELSE Strict(HashUpTo(key, n - 1), LAMBDA hash : HashMul(HashXor(hash, Ord(key[n]))))

hashString(key) == HashUpTo(key, Len(key))

\* hash % capacity
HashMod(h, capacity) == ((h[1] % capacity) * (65536 % capacity) + h[2]) % capacity

(***************************************************************************)
(* Hash table.  A Table is [count, capacity, entries]; entries is the      *)
(* bucket array, a sequence of [key, value] with key = NULL for an empty   *)
(* bucket or a tombstone.  objs is the heap, read for key->hash.           *)
(***************************************************************************)
EmptyTable == [count |-> 0, capacity |-> 0, entries |-> <<>>]

initTable == EmptyTable

\* The probe loop of findEntry from bucket index, having seen tombstone
\* (-1: none yet).  The result is a bucket index, or -1 when the loop has
\* visited every bucket without returning: it then never returns.
RECURSIVE FindEntryFrom(_, _, _, _, _, _)
FindEntryFrom(entries, capacity, key, index, tombstone, steps) ==
  IF steps = capacity THEN -1
  ELSE LET entry == entries[index + 1]
       IN  IF entry.key = NULL /\ IS_NIL(entry.value)
             THEN (IF tombstone # -1 THEN tombstone ELSE index)
           ELSE IF entry.key = key THEN index
           ELSE FindEntryFrom(entries, capacity, key, (index + 1) % capacity,
                              IF entry.key = NULL /\ tombstone = -1 THEN index ELSE tombstone,
                              steps + 1)

\* findEntry as it would be if the probe ended at the first bucket without
\* a key, tombstone or not.
RECURSIVE ProbeToFirstFree(_, _, _, _, _)
ProbeToFirstFree(entries, capacity, key, index, steps) ==
  IF steps = capacity THEN -1
  ELSE IF entries[index + 1].key = NULL \/ entries[index + 1].key = key THEN index
  ELSE ProbeToFirstFree(entries, capacity, key, (index + 1) % capacity, steps + 1)

findEntryEndingAtTombstone(objs, entries, capacity, key) ==
  ProbeToFirstFree(entries, capacity, key, HashMod(objs[key].hash, capacity), 0)

findEntry(objs, entries, capacity, key) ==
  FindEntryFrom(entries, capacity, key, HashMod(objs[key].hash, capacity), -1, 0)

\* [found, value]: what tableGet returns and its out-parameter.
tableGet(objs, t, key) ==
  IF t.count = 0 THEN [found |-> FALSE, value |-> NIL_VAL]
  ELSE Strict(findEntry(objs, t.entries, t.capacity, key),
         LAMBDA e :
           IF e = -1 \/ t.entries[e + 1].key = NULL
             THEN [found |-> FALSE, value |-> NIL_VAL]
           ELSE [found |-> TRUE, value |-> t.entries[e + 1].value])

RECURSIVE AdjustFrom(_, _, _, _, _, _)
AdjustFrom(objs, old, entries, capacity, count, i) ==
  IF i >= Len(old) THEN [count |-> count, capacity |-> capacity, entries |-> entries]
  ELSE IF old[i + 1].key = NULL
         THEN AdjustFrom(objs, old, entries, capacity, count, i + 1)
       ELSE AdjustFrom(objs, old,
                       [entries EXCEPT ![findEntry(objs, entries, capacity,
                                                   old[i + 1].key) + 1] = old[i + 1]],
                       capacity, count + 1, i + 1)

adjustCapacity(objs, t, capacity) ==
  AdjustFrom(objs, t.entries,
             [i \in 1..capacity |-> [key |-> NULL, value |-> NIL_VAL]],
             capacity, 0, 0)

OverLoadWhenFull(t) == t.count + 1 > t.capacity

\* table->count + 1 > table->capacity * TABLE_MAX_LOAD, TABLE_MAX_LOAD = 0.75
OverLoad(t) == 4 * (t.count + 1) > 3 * t.capacity

\* [table, isNewKey]
\* tableSet once the entry found for the key is known, in the table g
SetEntry(g, e, entry, key, value) ==
  [table |-> [g EXCEPT !.count = IF entry.key = NULL /\ IS_NIL(entry.value) THEN @ + 1 ELSE @,
                       !.entries[e + 1] = [key |-> key, value |-> value]],
   isNewKey |-> entry.key = NULL]

tableSet(objs, t, key, value) ==
  Strict(IF OverLoad(t) THEN adjustCapacity(objs, t, GROW_CAPACITY(t.capacity)) ELSE t,
    LAMBDA g :
      Strict(findEntry(objs, g.entries, g.capacity, key),
        LAMBDA e : SetEntry(g, e, g.entries[e + 1], key, value)))

\* tableDelete as it would be with table->count-- for the deleted entry.
tableDeleteDecrementingCount(objs, t, key) ==
  IF t.count = 0 THEN [table |-> t, deleted |-> FALSE]
  ELSE Strict(findEntry(objs, t.entries, t.capacity, key),
         LAMBDA e :
           IF e = -1 \/ t.entries[e + 1].key = NULL
             THEN [table |-> t, deleted |-> FALSE]
           ELSE [table |-> [t EXCEPT !.count = @ - 1,
                                     !.entries[e + 1] =
                                       [key |-> NULL, value |-> BOOL_VAL(TRUE)]],
                 deleted |-> TRUE])

\* [table, deleted]
tableDelete(objs, t, key) ==
  IF t.count = 0 THEN [table |-> t, deleted |-> FALSE]
  ELSE Strict(findEntry(objs, t.entries, t.capacity, key),
         LAMBDA e :
           IF e = -1 \/ t.entries[e + 1].key = NULL
             THEN [table |-> t, deleted |-> FALSE]
           ELSE [table |-> [t EXCEPT !.entries[e + 1] =
                                       [key |-> NULL, value |-> BOOL_VAL(TRUE)]],
                 deleted |-> TRUE])

RECURSIVE FindStringFrom(_, _, _, _, _, _)
FindStringFrom(objs, t, chars, hash, index, steps) ==
  IF steps = t.capacity THEN NULL
  ELSE LET entry == t.entries[index + 1]
       IN  IF entry.key = NULL /\ IS_NIL(entry.value) THEN NULL
           ELSE IF entry.key # NULL /\ Len(objs[entry.key].chars) = Len(chars)
                   /\ objs[entry.key].hash = hash /\ objs[entry.key].chars = chars
             THEN entry.key
           ELSE FindStringFrom(objs, t, chars, hash, (index + 1) % t.capacity, steps + 1)

tableFindString(objs, t, chars, hash) ==
  IF t.count = 0 THEN NULL
  ELSE FindStringFrom(objs, t, chars, hash, HashMod(hash, t.capacity), 0)

(***************************************************************************)
(* Heap objects.  v is the VM record; every allocation is put at the head  *)
(* of vm.objects, here the end of the sequence.                            *)
(***************************************************************************)
allocateObject(v, object) == [v EXCEPT !.objects = Append(@, object)]

\* The handle of the object allocated last.
Newest(v) == Len(v.objects)

\* tableSet(&vm.strings, string, NIL_VAL) for the string allocated last
InternNewest(a) ==
  [a EXCEPT !.strings = tableSet(a.objects, a.strings, Newest(a), NIL_VAL).table]

allocateString(v, chars, hash) ==
  InternNewest(allocateObject(v, [type |-> "OBJ_STRING", chars |-> chars, hash |-> hash]))

\* What copyString and takeString return: the string and the VM it is in.
StringIn(v, string) == [vm |-> v, string |-> string]

\* copyString as it would be without the lookup in vm.strings.
copyStringWithoutLookup(v, chars) ==
  Strict(allocateString(v, chars, hashString(chars)), LAMBDA a : StringIn(a, Newest(a)))

\* [vm, string]
copyString(v, chars) ==
  Strict(hashString(chars),
    LAMBDA hash :
      Strict(tableFindString(v.objects, v.strings, chars, hash),
        LAMBDA interned :
          IF interned # NULL THEN StringIn(v, interned)
          ELSE Strict(allocateString(v, chars, hash), LAMBDA a : StringIn(a, Newest(a)))))

\* [vm, string]; the buffer passed in is freed when the content is interned.
takeString(v, chars) ==
  Strict(hashString(chars),
    LAMBDA hash :
      Strict(tableFindString(v.objects, v.strings, chars, hash),
        LAMBDA interned :
          IF interned # NULL THEN StringIn(v, interned)
          ELSE Strict(allocateString(v, chars, hash), LAMBDA a : StringIn(a, Newest(a)))))

initChunk == [code |-> <<>>, lines |-> <<>>, constants |-> <<>>]

newFunction(v) ==
  allocateObject(v, [type |-> "OBJ_FUNCTION", arity |-> 0, upvalueCount |-> 0,
                     name |-> NULL, chunk |-> initChunk])

newClosure(v, function) ==
  allocateObject(v, [type |-> "OBJ_CLOSURE", function |-> function,
                     upvalues |-> [i \in 1..v.objects[function].upvalueCount |-> NULL]])

newNative(v, function) ==
  allocateObject(v, [type |-> "OBJ_NATIVE", function |-> function])

newUpvalue(v, slot) ==
  allocateObject(v, [type |-> "OBJ_UPVALUE", location |-> slot, closed |-> NIL_VAL,
                     next |-> NULL])

OBJ_TYPE(v, value) == v.objects[AS_OBJ(value)].type
isObjType(v, value, type) == IS_OBJ(value) /\ v.objects[AS_OBJ(value)].type = type
IS_STRING(v, value) == isObjType(v, value, "OBJ_STRING")

(***************************************************************************)
(* Scanner.  sc is the Scanner record [start, current, line], src the      *)
(* source buffer; the byte after the last character is the terminating     *)
(* NUL.  A Token is [type, start, length, line, message]: start is the     *)
(* offset of the lexeme in src, and for an error token, whose lexeme is a  *)
(* message literal, start is -1 and message holds the literal.             *)
(***************************************************************************)
NUL == "NUL"

LowerCase == {"a", "b", "c", "d", "e", "f", "g", "h", "i", "j", "k", "l", "m",
              "n", "o", "p", "q", "r", "s", "t", "u", "v", "w", "x", "y", "z"}
UpperCase == {"A", "B", "C", "D", "E", "F", "G", "H", "I", "J", "K", "L", "M",
              "N", "O", "P", "Q", "R", "S", "T", "U", "V", "W", "X", "Y", "Z"}
DigitChars == <<"0", "1", "2", "3", "4", "5", "6", "7", "8", "9">>

CharAt(src, i) == IF i >= 0 /\ i < Len(src) THEN src[i + 1] ELSE NUL

initScanner == [start |-> 0, current |-> 0, line |-> 1]

isAlpha(c) == c \in LowerCase \/ c \in UpperCase \/ c = "_"
isDigit(c) == \E i \in 1..10 : DigitChars[i] = c
isAtEnd(src, sc) == CharAt(src, sc.current) = NUL
peek(src, sc) == CharAt(src, sc.current)
peekNext(src, sc) == IF isAtEnd(src, sc) THEN NUL ELSE CharAt(src, sc.current + 1)
advanceChar(sc) == [sc EXCEPT !.current = @ + 1]

makeToken(sc, type) ==
  [type |-> type, start |-> sc.start, length |-> sc.current - sc.start,
   line |-> sc.line, message |-> ""]

\* strlen of the two message literals of the scanner
MessageLength(message) ==
  IF message = "Unterminated string" THEN 19
  ELSE IF message = "Unexpected character." THEN 21
  ELSE 0

errorToken(sc, message) ==
  [type |-> TOKEN_ERROR, start |-> -1, length |-> MessageLength(message),
   line |-> sc.line, message |-> message]

RECURSIVE SkipComment(_, _)
SkipComment(src, sc) ==
  IF peek(src, sc) # "\n" /\ ~isAtEnd(src, sc) THEN SkipComment(src, advanceChar(sc)) ELSE sc

RECURSIVE skipWhitespace(_, _)
skipWhitespace(src, sc) ==
  LET c == peek(src, sc)
  IN  IF c \in {" ", "\r", "\t"} THEN skipWhitespace(src, advanceChar(sc))
      ELSE IF c = "\n" THEN skipWhitespace(src, advanceChar([sc EXCEPT !.line = @ + 1]))
      ELSE IF c = "/" /\ peekNext(src, sc) = "/" THEN skipWhitespace(src, SkipComment(src, sc))
      ELSE sc

\* memcmp(scanner.start + start, rest, length) == 0 and the lexeme is as long
\* as the keyword; k is <<start, rest, type>>.
checkKeyword(src, sc, k) ==
  IF sc.current - sc.start = k[1] + Len(k[2])
     /\ \A i \in 1..Len(k[2]) : CharAt(src, sc.start + k[1] + i - 1) = k[2][i]
  THEN k[3] ELSE TOKEN_IDENTIFIER

\* The switch of identifierType on the first character c0 and, where the
\* lexeme is longer than one character, on the second, c1: the arguments
\* of the checkKeyword call it reaches, <<>> where it reaches none.
KeywordSwitch(c0, c1, long) ==
  CASE c0 = "a" -> <<1, <<"n", "d">>, TOKEN_AND>>
    [] c0 = "c" -> <<1, <<"l", "a", "s", "s">>, TOKEN_CLASS>>
    [] c0 = "e" -> <<1, <<"l", "s", "e">>, TOKEN_ELSE>>
    [] c0 = "f" /\ long /\ c1 = "a" -> <<2, <<"l", "s", "e">>, TOKEN_FALSE>>
    [] c0 = "f" /\ long /\ c1 = "o" -> <<2, <<"r">>, TOKEN_FOR>>
    [] c0 = "f" /\ long /\ c1 = "u" -> <<2, <<"n">>, TOKEN_FUN>>
    [] c0 = "i" -> <<1, <<"f">>, TOKEN_IF>>
    [] c0 = "n" -> <<1, <<"i", "l">>, TOKEN_NIL>>
    [] c0 = "o" -> <<1, <<"r">>, TOKEN_OR>>
    [] c0 = "p" -> <<1, <<"r", "i", "n", "t">>, TOKEN_PRINT>>
    [] c0 = "r" -> <<1, <<"e", "t", "u", "r", "n">>, TOKEN_RETURN>>
    [] c0 = "s" -> <<1, <<"u", "p", "e", "r">>, TOKEN_SUPER>>
    [] c0 = "t" /\ long /\ c1 = "h" -> <<2, <<"i", "s">>, TOKEN_THIS>>
    [] c0 = "t" /\ long /\ c1 = "r" -> <<2, <<"u", "e">>, TOKEN_TRUE>>
    [] c0 = "v" -> <<1, <<"a", "r">>, TOKEN_VAR>>
    [] c0 = "w" -> <<1, <<"h", "i", "l", "e">>, TOKEN_WHILE>>
    [] OTHER -> <<>>

Keyword(src, sc, k) == IF k = <<>> THEN TOKEN_IDENTIFIER ELSE checkKeyword(src, sc, k)

identifierType(src, sc) ==
  Keyword(src, sc, KeywordSwitch(CharAt(src, sc.start), CharAt(src, sc.start + 1),
                                 sc.current - sc.start > 1))

RECURSIVE SkipAlnum(_, _)
SkipAlnum(src, sc) ==
  IF isAlpha(peek(src, sc)) \/ isDigit(peek(src, sc)) THEN SkipAlnum(src, advanceChar(sc)) ELSE sc

RECURSIVE SkipDigits(_, _)
SkipDigits(src, sc) ==
  IF isDigit(peek(src, sc)) THEN SkipDigits(src, advanceChar(sc)) ELSE sc

\* Each of the token constructors returns [scanner, token].
Scanned(sc, token) == [scanner |-> sc, token |-> token]

identifier(src, sc) ==
  Strict(SkipAlnum(src, sc), LAMBDA s : Scanned(s, makeToken(s, identifierType(src, s))))

\* number() after the digits before the point
Fractional(src, s1) ==
  IF peek(src, s1) = "." /\ isDigit(peekNext(src, s1))
    THEN SkipDigits(src, advanceChar(s1))
  ELSE s1

number(src, sc) ==
  Strict(Fractional(src, SkipDigits(src, sc)),
    LAMBDA s2 : Scanned(s2, makeToken(s2, TOKEN_NUMBER)))

\* The loop of string(): the line counter moves on every character that is
\* not a newline.
RECURSIVE StringBody(_, _)
StringBody(src, sc) ==
  IF peek(src, sc) # "\"" /\ ~isAtEnd(src, sc)
  THEN StringBody(src, advanceChar(IF peek(src, sc) # "\n"
                                     THEN [sc EXCEPT !.line = @ + 1] ELSE sc))
  ELSE sc

\* string() after its loop
StringEnd(src, s) ==
  IF isAtEnd(src, s) THEN Scanned(s, errorToken(s, "Unterminated string"))
  ELSE Scanned(advanceChar(s), makeToken(advanceChar(s), TOKEN_STRING))

string(src, sc) == StringEnd(src, StringBody(src, sc))

\* match(expected) of the scanner, as the scanner after it
matchChar(src, sc, expected) ==
  IF ~isAtEnd(src, sc) /\ peek(src, sc) = expected THEN advanceChar(sc) ELSE sc

\* makeToken(match(expected) ? two : one)
TwoChar(src, sc, expected, two, one) ==
  Strict(matchChar(src, sc, expected),
    LAMBDA s : Scanned(s, makeToken(s, IF s.current # sc.current THEN two ELSE one)))

OneChar(sc, type) == Scanned(sc, makeToken(sc, type))

\* The switch of scanToken on the character c just consumed.
ScanSwitch(src, sc, c) ==
  IF isAlpha(c) THEN identifier(src, sc)
  ELSE IF isDigit(c) THEN number(src, sc)
  ELSE CASE c = "(" -> OneChar(sc, TOKEN_LEFT_PAREN)
         [] c = ")" -> OneChar(sc, TOKEN_RIGHT_PAREN)
         [] c = "{" -> OneChar(sc, TOKEN_LEFT_BRACE)
         [] c = "}" -> OneChar(sc, TOKEN_RIGHT_BRACE)
         [] c = ";" -> OneChar(sc, TOKEN_SEMICOLON)
         [] c = "," -> OneChar(sc, TOKEN_COMMA)
         [] c = "." -> OneChar(sc, TOKEN_DOT)
         [] c = "-" -> OneChar(sc, TOKEN_MINUS)
         [] c = "+" -> OneChar(sc, TOKEN_PLUS)
         [] c = "/" -> OneChar(sc, TOKEN_SLASH)
         [] c = "*" -> OneChar(sc, TOKEN_STAR)
         [] c = "!" -> TwoChar(src, sc, "=", TOKEN_BANG_EQUAL, TOKEN_BANG)
         [] c = "=" -> TwoChar(src, sc, "=", TOKEN_EQUAL_EQUAL, TOKEN_EQUAL)
         [] c = "<" -> TwoChar(src, sc, "=", TOKEN_LESS_EQUAL, TOKEN_LESS)
         [] c = ">" -> TwoChar(src, sc, "=", TOKEN_GREATER_EQUAL, TOKEN_GREATER)
         [] c = "\"" -> string(src, sc)
         [] OTHER -> Scanned(sc, errorToken(sc, "Unexpected character."))

\* scanToken after skipWhitespace, with scanner.start = scanner.current
ScanFrom(src, st) ==
  IF isAtEnd(src, st) THEN Scanned(st, makeToken(st, TOKEN_EOF))
  ELSE ScanSwitch(src, advanceChar(st), CharAt(src, st.current))

\* scanToken as it would be if it consumed the terminator of the source.
scanTokenPastTheEnd(src, sc0) ==
  Strict(skipWhitespace(src, sc0),
    LAMBDA ws : IF isAtEnd(src, ws)
                  THEN Scanned(advanceChar([ws EXCEPT !.start = ws.current]),
                               makeToken([ws EXCEPT !.start = ws.current], TOKEN_EOF))
                ELSE ScanFrom(src, [ws EXCEPT !.start = ws.current]))

scanToken(src, sc0) ==
  Strict(skipWhitespace(src, sc0),
    LAMBDA ws : ScanFrom(src, [ws EXCEPT !.start = ws.current]))

\* The characters of a token's lexeme.
Lexeme(src, token) == SubSeq(src, token.start + 1, token.start + token.length)

(***************************************************************************)
(* Compiler.  Every function of compiler.c is an operator from the state w *)
(* it runs in to the state it leaves:                                      *)
(*   w.vm, w.source, w.scanner, w.parser, w.current, w.control, w.err      *)
(* and w.rv, the value the function returned.  w.current is the chain of   *)
(* Compiler structs, the innermost (C's `current`) last; each is           *)
(*   [function, type, locals, upvalues, scopeDepth]                        *)
(* with localCount = Len(locals) and locals[i + 1] = [name, depth,         *)
(* isCaptured], name being the [start, length] of the token.               *)
(***************************************************************************)
PREC_NONE == 0
PREC_ASSIGNMENT == 1
PREC_OR == 2
PREC_AND == 3
PREC_EQUALITY == 4
PREC_COMPARISON == 5
PREC_TERM == 6
PREC_FACTOR == 7
PREC_UNARY == 8
PREC_CALL == 9
PREC_PRIMARY == 10

\* One line of standard error: text is the format or the message, n the
\* numbers and s the characters printed into it, at the location part of a
\* compile error and lexmsg the message literal printed as its lexeme.
ErrLine(text, n, s, at, lexmsg) ==
  [text |-> text, n |-> n, s |-> s, at |-> at, lexmsg |-> lexmsg]

Cur(w) == w.current[Len(w.current)]
CurFunction(w) == w.vm.objects[Cur(w).function]
currentChunk(w) == CurFunction(w).chunk
Entries(w) == Len(currentChunk(w).code)
Ret(w, value) == [w EXCEPT !.rv = value]

\* errorAt as it would be without the return in panic mode.
errorAtDespitePanic(w, token, message) ==
  [w EXCEPT
    !.parser.panicMode = TRUE,
    !.parser.hadError = TRUE,
    !.err = Append(@, ErrLine(message, <<token.line>>, <<>>, "", ""))]

errorAt(w, token, message) ==
  IF w.parser.panicMode THEN w
  ELSE [w EXCEPT
         !.parser.panicMode = TRUE,
         !.parser.hadError = TRUE,
         !.err = Append(@,
           IF token.line = TOKEN_EOF
             THEN ErrLine(message, <<token.line>>, <<>>, " at end", "")
           ELSE IF token.line = TOKEN_ERROR
             THEN ErrLine(message, <<token.line>>, <<>>, "", "")
           ELSE IF token.type = TOKEN_ERROR
             THEN ErrLine(message, <<token.line>>, <<>>, " at '%.*s'", token.message)
           ELSE ErrLine(message, <<token.line>>, Lexeme(w.source, token), " at '%.*s'", ""))]

error(w, message) == errorAt(w, w.parser.previous, message)
errorAtCurrent(w, message) == errorAt(w, w.parser.current, message)

\* The loop of advance(): scan until a token that is not an error token.
\* parser.current = scanToken(), r being what scanToken gave
Scan(w, r) == [w EXCEPT !.scanner = r.scanner, !.parser.current = r.token]

RECURSIVE AdvanceLoop(_)
AdvanceLoop(w) ==
  Strict(scanToken(w.source, w.scanner),
    LAMBDA r : IF r.token.type # TOKEN_ERROR THEN Scan(w, r)
               ELSE AdvanceLoop(errorAtCurrent(Scan(w, r), r.token.message)))

advance(w) == AdvanceLoop([w EXCEPT !.parser.previous = w.parser.current])

check(w, type) == w.parser.current.type = type

consume(w, type, message) ==
  IF check(w, type) THEN advance(w) ELSE errorAtCurrent(w, message)

\* match(type): the state after it; rv is what it returned.
match(w, type) ==
  IF ~check(w, type) THEN Ret(w, FALSE) ELSE Ret(advance(w), TRUE)

writeChunk(chunk, byte, line) ==
  [chunk EXCEPT !.code = Append(@, byte), !.lines = Append(@, line)]

emitByte(w, byte) ==
  [w EXCEPT !.vm.objects[Cur(w).function].chunk = writeChunk(@, byte, w.parser.previous.line)]

emitBytes(w, byte1, byte2) == emitByte(emitByte(w, byte1), byte2)

\* emitLoop after OP_LOOP is written
LoopOperand(w1, offset) ==
  emitByte(emitByte(IF offset > UINT16_MAX THEN error(w1, "Loop body too large.") ELSE w1,
                    (offset \div 256) % 256),
           offset % 256)

emitLoop(w, loopStart) ==
  Strict(emitByte(w, OP_LOOP), LAMBDA w1 : LoopOperand(w1, Entries(w1) - loopStart + 2))

\* rv is the offset of the operand to patch.
emitJump(w, instruction) ==
  Strict(emitByte(emitByte(emitByte(w, instruction), 255), 255),
    LAMBDA w1 : Ret(w1, Entries(w1) - 2))

emitReturn(w) == emitByte(emitByte(w, OP_NIL), OP_RETURN)

addConstant(chunk, value) == [chunk EXCEPT !.constants = Append(@, value)]

\* rv is the index of the constant, 0 after an error.
\* makeConstant after addConstant gave the index constant
CheckConstant(w1, constant) ==
  IF constant > UINT8_MAX THEN Ret(error(w1, "Too many constants in one chunk."), 0)
  ELSE Ret(w1, constant)

\* makeConstant as it would be with addConstant returning the number of
\* entries.
makeConstantCountingFromOne(w, value) ==
  Strict([w EXCEPT !.vm.objects[Cur(w).function].chunk = addConstant(@, value)],
    LAMBDA w1 : CheckConstant(w1, Len(currentChunk(w1).constants)))

makeConstant(w, value) ==
  Strict([w EXCEPT !.vm.objects[Cur(w).function].chunk = addConstant(@, value)],
    LAMBDA w1 : CheckConstant(w1, Len(currentChunk(w1).constants) - 1))

emitConstant(w, value) ==
  Strict(makeConstant(w, value), LAMBDA w1 : emitBytes(w1, OP_CONSTANT, w1.rv))

\* patchJump once jump is computed
WriteJump(w, offset, jump) ==
  [(IF jump > UINT16_MAX THEN error(w, "Too much code to jump over.") ELSE w) EXCEPT
     !.vm.objects[Cur(w).function].chunk.code[offset + 1] = (jump \div 256) % 256,
     !.vm.objects[Cur(w).function].chunk.code[offset + 2] = jump % 256]

patchJump(w, offset) == WriteJump(w, offset, Entries(w) - offset - 2)

\* The new Compiler struct for the function fn.
NewCompiler(fn, type) ==
  [function |-> fn, type |-> type,
   locals |-> <<[name |-> [start |-> 0, length |-> 0], depth |-> 0, isCaptured |-> FALSE]>>,
   upvalues |-> <<>>, scopeDepth |-> 0]

\* current->function->name = copyString(...), c being what copyString gave
NameFunction(c, fn) == [c.vm EXCEPT !.objects[fn].name = c.string]

\* initCompiler after newFunction, in the VM v1
InitNewest(w, type, v1) ==
  [w EXCEPT
    !.vm = IF type # "TYPE_SCRIPT"
             THEN NameFunction(copyString(v1, Lexeme(w.source, w.parser.previous)), Newest(v1))
           ELSE v1,
    !.current = Append(@, NewCompiler(Newest(v1), type))]

initCompiler(w, type) ==
  Strict(newFunction(w.vm), LAMBDA v1 : InitNewest(w, type, v1))

endCompilerKeepingFrame(w) ==
  Strict(emitReturn(w), LAMBDA w1 : [w1 EXCEPT !.rv = Cur(w1).function])

\* rv is the finished function.
endCompiler(w) ==
  Strict(emitReturn(w), LAMBDA w1 : [w1 EXCEPT !.rv = Cur(w1).function, !.current = Front(@)])

beginScope(w) == [w EXCEPT !.current[Len(w.current)].scopeDepth = @ + 1]

\* current->localCount--
DropLocal(w) == [w EXCEPT !.current[Len(w.current)].locals = Front(@)]

RECURSIVE EndScopeLoop(_)
EndScopeLoop(w) ==
  IF Len(Cur(w).locals) > 0 /\ Last(Cur(w).locals).depth > Cur(w).scopeDepth
    THEN EndScopeLoop(DropLocal(emitByte(w, IF Last(Cur(w).locals).isCaptured
                                              THEN OP_CLOSE_UPVALUE ELSE OP_POP)))
  ELSE w

\* endScope as it would be without the loop that drops the scope's locals.
endScopeKeepingLocals(w) == [w EXCEPT !.current[Len(w.current)].scopeDepth = @ - 1]

endScope(w) == EndScopeLoop([w EXCEPT !.current[Len(w.current)].scopeDepth = @ - 1])

\* strtod on the characters at start: digits, a fraction, an exponent.
\* DigitsFrom gives the value of the digits from i on, how many there are
\* and the offset after them.
RECURSIVE DigitsFrom(_, _, _)
DigitsFrom(src, i, acc) ==
  IF isDigit(CharAt(src, i))
    THEN DigitsFrom(src, i + 1,
           [value |-> acc.value * 10 + ((CHOOSE k \in 1..10 : DigitChars[k] = CharAt(src, i)) - 1),
            count |-> acc.count + 1])
  ELSE [value |-> acc.value, count |-> acc.count, next |-> i]

NoDigits(i) == [value |-> 0, count |-> 0, next |-> i]

RECURSIVE Pow10(_)
Pow10(n) == IF n = 0 THEN 1 ELSE 10 * Pow10(n - 1)

\* num / den times ten to the exponent exp, negative when minus
Scaled(num, den, exp, minus) ==
  IF exp.count = 0 THEN NUMBER_VAL(num, den)
  ELSE IF minus THEN NUMBER_VAL(num, den * Pow10(exp.value))
  ELSE NUMBER_VAL(num * Pow10(exp.value), den)

\* the exponent part at offset e, if there is one
Exponent(src, e) ==
  IF CharAt(src, e) \in {"e", "E"}
    THEN DigitsFrom(src, IF CharAt(src, e + 1) \in {"+", "-"} THEN e + 2 ELSE e + 1,
                    NoDigits(0))
  ELSE NoDigits(e)

Mantissa(src, whole, frac) ==
  Scaled(whole.value * Pow10(frac.count) + frac.value, Pow10(frac.count),
         Exponent(src, frac.next), CharAt(src, frac.next + 1) = "-")

strtod(src, start) ==
  Strict(DigitsFrom(src, start, NoDigits(0)),
    LAMBDA whole :
      Strict(IF CharAt(src, whole.next) = "." THEN DigitsFrom(src, whole.next + 1, NoDigits(0))
             ELSE NoDigits(whole.next),
        LAMBDA frac : Mantissa(src, whole, frac)))

LocalName(token) == [start |-> token.start, length |-> token.length]

identifiersEqual(src, a, b) ==
  a.length = b.length /\ Lexeme(src, a) = Lexeme(src, b)

identifierConstant(w, name) ==
  Strict(copyString(w.vm, Lexeme(w.source, name)),
    LAMBDA c : makeConstant([w EXCEPT !.vm = c.vm], OBJ_VAL(c.string)))

\* The loop of resolveLocal over locals[i], i counting down; ci is the
\* position of the compiler in the chain.  rv is the slot, or -1.
RECURSIVE ResolveLocalFrom(_, _, _, _)
ResolveLocalFrom(w, ci, name, i) ==
  IF i < 0 THEN Ret(w, -1)
  ELSE IF identifiersEqual(w.source, name, w.current[ci].locals[i + 1].name)
         THEN Ret(IF w.current[ci].locals[i + 1].depth = -1
                    THEN error(w, "Can't read local variable in its own initializer.")
                  ELSE w, i)
       ELSE ResolveLocalFrom(w, ci, name, i - 1)

resolveLocal(w, ci, name) == ResolveLocalFrom(w, ci, name, Len(w.current[ci].locals) - 1)

addUpvalue(w, ci, index, isLocal) ==
  LET function == w.current[ci].function
      upvalueCount == w.vm.objects[function].upvalueCount
      ups == w.current[ci].upvalues
      same == {i \in 0..(upvalueCount - 1) :
                 ups[i + 1].index = index /\ ups[i + 1].isLocal = isLocal}
  IN  IF same # {} THEN Ret(w, CHOOSE i \in same : \A j \in same : i <= j)
      ELSE IF upvalueCount = UINT8_COUNT
        THEN Ret(error(w, "Too many closure variables in function."), 0)
      ELSE Ret([w EXCEPT !.current[ci].upvalues = Append(@, [index |-> index, isLocal |-> isLocal]),
                         !.vm.objects[function].upvalueCount = @ + 1],
               upvalueCount)

\* compiler->enclosing->locals[local].isCaptured = true
Capture(w, ci, local) == [w EXCEPT !.current[ci].locals[local + 1].isCaptured = TRUE]

RECURSIVE resolveUpvalue(_, _, _)
resolveUpvalue(w, ci, name) ==
  IF ci = 1 THEN Ret(w, -1)
  ELSE Strict(resolveLocal(w, ci - 1, name),
         LAMBDA w1 :
           IF w1.rv # -1 THEN addUpvalue(Capture(w1, ci - 1, w1.rv), ci, w1.rv % 256, TRUE)
           ELSE Strict(resolveUpvalue(w1, ci - 1, name),
                  LAMBDA w2 : IF w2.rv # -1 THEN addUpvalue(w2, ci, w2.rv % 256, FALSE)
                              ELSE Ret(w2, -1)))

addLocalOneTooMany(w, name) ==
  IF Len(Cur(w).locals) > UINT8_COUNT
    THEN error(w, "Too many local variables in function.")
  ELSE [w EXCEPT !.current[Len(w.current)].locals =
                   Append(@, [name |-> LocalName(name), depth |-> -1, isCaptured |-> FALSE])]

addLocal(w, name) ==
  IF Len(Cur(w).locals) = UINT8_COUNT
    THEN error(w, "Too many local variables in function.")
  ELSE [w EXCEPT !.current[Len(w.current)].locals =
                   Append(@, [name |-> LocalName(name), depth |-> -1, isCaptured |-> FALSE])]

RECURSIVE DeclareFromEveryScope(_, _, _)
\* The loop of declareVariable as it would be without the break at a local
\* of an enclosing scope.
DeclareFromEveryScope(w, name, i) ==
  IF i < 0 THEN w
  ELSE DeclareFromEveryScope(IF identifiersEqual(w.source, name, Cur(w).locals[i + 1].name)
                               THEN error(w, "Already a variable with this name in this scope.")
                             ELSE w, name, i - 1)

\* The loop of declareVariable over locals[i], i counting down.
RECURSIVE DeclareFrom(_, _, _)
DeclareFrom(w, name, i) ==
  IF i < 0 THEN w
  ELSE IF Cur(w).locals[i + 1].depth # -1 /\ Cur(w).locals[i + 1].depth < Cur(w).scopeDepth
         THEN w
       ELSE DeclareFrom(IF identifiersEqual(w.source, name, Cur(w).locals[i + 1].name)
                          THEN error(w, "Already a variable with this name in this scope.")
                        ELSE w, name, i - 1)

declareVariable(w) ==
  IF Cur(w).scopeDepth = 0 THEN w
  ELSE addLocal(DeclareFrom(w, w.parser.previous, Len(Cur(w).locals) - 1), w.parser.previous)

\* rv is the constant index of the name (0 in a local scope).
parseVariable(w, errorMessage) ==
  Strict(declareVariable(consume(w, TOKEN_IDENTIFIER, errorMessage)),
    LAMBDA w1 : IF Cur(w1).scopeDepth > 0 THEN Ret(w1, 0)
                ELSE identifierConstant(w1, w1.parser.previous))

markInitialized(w) ==
  IF Cur(w).scopeDepth = 0 THEN w
  ELSE [w EXCEPT !.current[Len(w.current)].locals[Len(Cur(w).locals)].depth = Cur(w).scopeDepth]

defineVariable(w, global) ==
  IF Cur(w).scopeDepth > 0 THEN markInitialized(w)
  ELSE emitBytes(w, OP_DEFINE_GLOBAL, global)

\* rules[type]: the names of the prefix and infix functions ("" is NULL)
\* and the precedence.
getRule(type) ==
  CASE type = TOKEN_LEFT_PAREN -> [prefix |-> "grouping", infix |-> "call", precedence |-> PREC_CALL]
    [] type = TOKEN_MINUS -> [prefix |-> "unary", infix |-> "binary", precedence |-> PREC_TERM]
    [] type = TOKEN_PLUS -> [prefix |-> "", infix |-> "binary", precedence |-> PREC_TERM]
    [] type \in {TOKEN_SLASH, TOKEN_STAR} ->
         [prefix |-> "", infix |-> "binary", precedence |-> PREC_FACTOR]
    [] type = TOKEN_BANG -> [prefix |-> "unary", infix |-> "", precedence |-> PREC_NONE]
    [] type \in {TOKEN_BANG_EQUAL, TOKEN_EQUAL_EQUAL} ->
         [prefix |-> "", infix |-> "binary", precedence |-> PREC_EQUALITY]
    [] type \in {TOKEN_GREATER, TOKEN_GREATER_EQUAL, TOKEN_LESS, TOKEN_LESS_EQUAL} ->
         [prefix |-> "", infix |-> "binary", precedence |-> PREC_COMPARISON]
    [] type = TOKEN_IDENTIFIER -> [prefix |-> "variable", infix |-> "", precedence |-> PREC_NONE]
    [] type = TOKEN_STRING -> [prefix |-> "string", infix |-> "", precedence |-> PREC_NONE]
    [] type = TOKEN_NUMBER -> [prefix |-> "number", infix |-> "", precedence |-> PREC_NONE]
    [] type = TOKEN_AND -> [prefix |-> "", infix |-> "and_", precedence |-> PREC_AND]
    [] type \in {TOKEN_FALSE, TOKEN_NIL, TOKEN_TRUE} ->
         [prefix |-> "literal", infix |-> "", precedence |-> PREC_NONE]
    [] type = TOKEN_OR -> [prefix |-> "", infix |-> "or_", precedence |-> PREC_OR]
    [] OTHER -> [prefix |-> "", infix |-> "", precedence |-> PREC_NONE]


(***************************************************************************)
(* The recursive descent.  The functions of the grammar call each other    *)
(* recursively, so their activations are kept on w.control, the C call     *)
(* stack above compile(), innermost last.  An activation is                *)
(*   [fn, at, locals]                                                      *)
(* fn the function, at the place in its body where it goes on ("entry":    *)
(* its first statement) and locals its arguments and local variables.      *)
(* One step runs the innermost activation from that place up to its next   *)
(* call of a function of the grammar, or to its return.                    *)
(***************************************************************************)
Enter(fn) == [fn |-> fn, at |-> "entry", locals |-> <<>>]
EnterWith(fn, args) == [fn |-> fn, at |-> "entry", locals |-> args]
At(fn, at, locals) == [fn |-> fn, at |-> at, locals |-> locals]

\* Call callee and go on at `after` when it has returned.
Call(w, callee, after) == [w EXCEPT !.control = Append(Append(@, after), callee)]

\* Call callee as the last thing the function does.
TailCall(w, callee) == [w EXCEPT !.control = Append(@, callee)]

\* binary as it would be with parsePrecedence(rule->precedence) for the
\* right operand.
binaryRightAssociative(w, f) ==
  IF f.at = "entry"
    THEN Call(w, EnterWith("parsePrecedence",
                           [precedence |-> getRule(w.parser.previous.type).precedence]),
              At("binary", "emit", [operatorType |-> w.parser.previous.type]))
  ELSE CASE f.locals.operatorType = TOKEN_PLUS -> emitByte(w, OP_ADD)
         [] f.locals.operatorType = TOKEN_MINUS -> emitByte(w, OP_SUBTRACT)
         [] f.locals.operatorType = TOKEN_STAR -> emitByte(w, OP_MULTIPLY)
         [] f.locals.operatorType = TOKEN_SLASH -> emitByte(w, OP_DIVIDE)
         [] OTHER -> w

binary(w, f) ==
  IF f.at = "entry"
    THEN Call(w, EnterWith("parsePrecedence",
                           [precedence |-> getRule(w.parser.previous.type).precedence + 1]),
              At("binary", "emit", [operatorType |-> w.parser.previous.type]))
  ELSE CASE f.locals.operatorType = TOKEN_BANG_EQUAL -> emitBytes(w, OP_EQUAL, OP_NOT)
         [] f.locals.operatorType = TOKEN_EQUAL_EQUAL -> emitByte(w, OP_EQUAL)
         [] f.locals.operatorType = TOKEN_GREATER -> emitByte(w, OP_GREATER)
         [] f.locals.operatorType = TOKEN_GREATER_EQUAL -> emitBytes(w, OP_LESS, OP_NOT)
         [] f.locals.operatorType = TOKEN_LESS -> emitByte(w, OP_LESS)
         [] f.locals.operatorType = TOKEN_LESS_EQUAL -> emitBytes(w, OP_GREATER, OP_NOT)
         [] f.locals.operatorType = TOKEN_PLUS -> emitByte(w, OP_ADD)
         [] f.locals.operatorType = TOKEN_MINUS -> emitByte(w, OP_SUBTRACT)
         [] f.locals.operatorType = TOKEN_STAR -> emitByte(w, OP_MULTIPLY)
         [] f.locals.operatorType = TOKEN_SLASH -> emitByte(w, OP_DIVIDE)
         [] OTHER -> w

\* call(): w.rv is what argumentList returned
callRule(w, f) ==
  IF f.at = "entry" THEN Call(w, Enter("argumentList"), At("call", "emit", <<>>))
  ELSE emitBytes(w, OP_CALL, w.rv)

literal(w, f) ==
  CASE w.parser.previous.type = TOKEN_FALSE -> emitByte(w, OP_FALSE)
    [] w.parser.previous.type = TOKEN_NIL -> emitByte(w, OP_NIL)
    [] w.parser.previous.type = TOKEN_TRUE -> emitByte(w, OP_TRUE)
    [] OTHER -> w

grouping(w, f) ==
  IF f.at = "entry" THEN Call(w, Enter("expression"), At("grouping", "close", <<>>))
  ELSE consume(w, TOKEN_RIGHT_PAREN, "Expect ')' after expression.")

numberRule(w, f) == emitConstant(w, strtod(w.source, w.parser.previous.start))

\* or_ after the two jumps are emitted
OrRight(w2, elseJump, endJump) ==
  Call(emitByte(patchJump(w2, elseJump), OP_POP),
       EnterWith("parsePrecedence", [precedence |-> PREC_OR]),
       At("or_", "patch", [endJump |-> endJump]))

or_(w, f) ==
  IF f.at = "entry"
    THEN Strict(emitJump(w, OP_JUMP_IF_FALSE),
           LAMBDA w1 : Strict(emitJump(w1, OP_JUMP), LAMBDA w2 : OrRight(w2, w1.rv, w2.rv)))
  ELSE patchJump(w, f.locals.endJump)

\* and_ as it would be with OP_JUMP for OP_JUMP_IF_FALSE.
andSkippingAlways(w, f) ==
  IF f.at = "entry"
    THEN Strict(emitJump(w, OP_JUMP),
           LAMBDA w1 : Call(emitByte(w1, OP_POP),
                            EnterWith("parsePrecedence", [precedence |-> PREC_AND]),
                            At("and_", "patch", [endJump |-> w1.rv])))
  ELSE patchJump(w, f.locals.endJump)

and_(w, f) ==
  IF f.at = "entry"
    THEN Strict(emitJump(w, OP_JUMP_IF_FALSE),
           LAMBDA w1 : Call(emitByte(w1, OP_POP),
                            EnterWith("parsePrecedence", [precedence |-> PREC_AND]),
                            At("and_", "patch", [endJump |-> w1.rv])))
  ELSE patchJump(w, f.locals.endJump)

\* The string token without its quotes.
StringChars(src, token) == SubSeq(src, token.start + 2, token.start + token.length - 1)

stringRule(w, f) ==
  Strict(copyString(w.vm, StringChars(w.source, w.parser.previous)),
    LAMBDA c : emitConstant([w EXCEPT !.vm = c.vm], OBJ_VAL(c.string)))

\* The first part of namedVariable: rv is <<arg, getOp, setOp>>.
ResolveName(w, name) ==
  Strict(resolveLocal(w, Len(w.current), name),
    LAMBDA w1 :
      IF w1.rv # -1 THEN Ret(w1, <<w1.rv, OP_GET_LOCAL, OP_SET_LOCAL>>)
      ELSE Strict(resolveUpvalue(w1, Len(w.current), name),
             LAMBDA w2 :
               IF w2.rv # -1 THEN Ret(w2, <<w2.rv, OP_GET_UPVALUE, OP_SET_UPVALUE>>)
               ELSE Strict(identifierConstant(w2, name),
                      LAMBDA w3 : Ret(w3, <<w3.rv, OP_GET_GLOBAL, OP_SET_GLOBAL>>))))

\* if (canAssign && match(TOKEN_EQUAL)) ... else ...
Access(w, arg, getOp, setOp, canAssign) ==
  IF canAssign /\ check(w, TOKEN_EQUAL)
    THEN Call(advance(w), Enter("expression"),
              At("namedVariable", "set", [setOp |-> setOp, arg |-> arg]))
  ELSE emitBytes(w, getOp, arg % 256)

namedVariable(w, f) ==
  IF f.at = "entry"
    THEN Strict(ResolveName(w, f.locals.name),
           LAMBDA r : Access(r, r.rv[1], r.rv[2], r.rv[3], f.locals.canAssign))
  ELSE emitBytes(w, f.locals.setOp, f.locals.arg % 256)

variable(w, f) ==
  TailCall(w, EnterWith("namedVariable",
                        [name |-> w.parser.previous, canAssign |-> f.locals.canAssign]))

unary(w, f) ==
  IF f.at = "entry"
    THEN Call(w, EnterWith("parsePrecedence", [precedence |-> PREC_UNARY]),
              At("unary", "emit", [operatorType |-> w.parser.previous.type]))
  ELSE CASE f.locals.operatorType = TOKEN_BANG -> emitByte(w, OP_NOT)
         [] f.locals.operatorType = TOKEN_MINUS -> emitByte(w, OP_NEGATE)
         [] OTHER -> w

\* parsePrecedence from its loop on: the loop calls the infix rule of the
\* token and comes back here.
InfixLoop(w, f) ==
  IF f.locals.precedence <= getRule(w.parser.current.type).precedence
    THEN Strict(advance(w),
           LAMBDA w1 : Call(w1, EnterWith(getRule(w1.parser.previous.type).infix,
                                          [canAssign |-> f.locals.canAssign]),
                            f))
  ELSE IF f.locals.canAssign /\ check(w, TOKEN_EQUAL)
    THEN error(advance(w), "Invalid assignment target.")
  ELSE w

\* parsePrecedence after advance()
Prefix(w1, precedence, prefixRule) ==
  IF prefixRule = "" THEN error(w1, "Expect expression.")
  ELSE Call(w1, EnterWith(prefixRule, [canAssign |-> precedence <= PREC_ASSIGNMENT]),
            At("parsePrecedence", "infix",
               [precedence |-> precedence, canAssign |-> precedence <= PREC_ASSIGNMENT]))

parsePrecedence(w, f) ==
  IF f.at = "entry"
    THEN Strict(advance(w),
           LAMBDA w1 : Prefix(w1, f.locals.precedence, getRule(w1.parser.previous.type).prefix))
  ELSE InfixLoop(w, f)

\* argumentList after an argument is compiled; argCount is a uint8_t.
NextArgument(w, argCount) ==
  IF check(w, TOKEN_COMMA)
    THEN Call(advance(w), Enter("expression"),
              At("argumentList", "argument", [argCount |-> argCount]))
  ELSE Ret(consume(w, TOKEN_RIGHT_PAREN, "Expect ')' after arguments."), argCount)

argumentList(w, f) ==
  IF f.at = "entry"
    THEN IF ~check(w, TOKEN_RIGHT_PAREN)
           THEN Call(w, Enter("expression"), At("argumentList", "argument", [argCount |-> 0]))
         ELSE Ret(consume(w, TOKEN_RIGHT_PAREN, "Expect ')' after arguments."), 0)
  ELSE NextArgument(IF f.locals.argCount = 255
                      THEN error(w, "Can't have more than 255 arguments.")
                    ELSE w,
                    (f.locals.argCount + 1) % 256)

expression(w, f) == TailCall(w, EnterWith("parsePrecedence", [precedence |-> PREC_ASSIGNMENT]))

blockUntilBraceOnly(w, f) ==
  IF ~check(w, TOKEN_RIGHT_BRACE)
    THEN Call(w, Enter("declaration"), At("block", "loop", <<>>))
  ELSE consume(w, TOKEN_RIGHT_BRACE, "Expect '}' after block.")

\* block: the head of its loop, and what follows the loop
block(w, f) ==
  IF ~check(w, TOKEN_RIGHT_BRACE) /\ ~check(w, TOKEN_EOF)
    THEN Call(w, Enter("declaration"), At("block", "loop", <<>>))
  ELSE consume(w, TOKEN_RIGHT_BRACE, "Expect '}' after block.")

\* current->function->arity++ and the check that follows it
CountParameter(w1) ==
  IF CurFunction(w1).arity > 255
    THEN errorAtCurrent(w1, "Can't have more than 255 parameters.")
  ELSE w1

\* The do-while loop of function() over the parameters.
RECURSIVE ParameterLoop(_)
ParameterLoop(w) ==
  Strict(parseVariable(CountParameter([w EXCEPT !.vm.objects[Cur(w).function].arity = @ + 1]),
                       "Expect parameter name."),
    LAMBDA w3 : Strict(match(defineVariable(w3, w3.rv), TOKEN_COMMA),
                  LAMBDA m : IF m.rv THEN ParameterLoop(m) ELSE m))

\* The loop of function() as it would be with the isLocal byte alone.
RECURSIVE EmitUpvaluesIsLocalOnly(_, _, _, _)
EmitUpvaluesIsLocalOnly(w, upvalues, i, upvalueCount) ==
  IF i >= upvalueCount THEN w
  ELSE EmitUpvaluesIsLocalOnly(emitByte(w, IF upvalues[i + 1].isLocal THEN 1 ELSE 0),
                               upvalues, i + 1, upvalueCount)

\* The loop of function() that emits one (isLocal, index) pair per upvalue.
RECURSIVE EmitUpvalues(_, _, _, _)
EmitUpvalues(w, upvalues, i, upvalueCount) ==
  IF i >= upvalueCount THEN w
  ELSE EmitUpvalues(emitByte(emitByte(w, IF upvalues[i + 1].isLocal THEN 1 ELSE 0),
                             upvalues[i + 1].index),
                    upvalues, i + 1, upvalueCount)

\* function() from consume(TOKEN_RIGHT_PAREN) to the call of block()
FunctionBody(w2) ==
  Call(consume(consume(w2, TOKEN_RIGHT_PAREN, "Expect ')' after parameters."),
               TOKEN_LEFT_BRACE, "Expect '{' before function body."),
       Enter("block"), At("function", "end", <<>>))

\* function() after endCompiler(): compiler is the struct of the function
\* just finished and w5.rv that function
EmitClosure(w5, compiler) ==
  Strict(makeConstant(w5, OBJ_VAL(w5.rv)),
    LAMBDA w6 : EmitUpvalues(emitBytes(w6, OP_CLOSURE, w6.rv), compiler.upvalues, 0,
                             w6.vm.objects[w5.rv].upvalueCount))

function(w, f) ==
  IF f.at = "entry"
    THEN Strict(consume(beginScope(initCompiler(w, f.locals.type)),
                        TOKEN_LEFT_PAREN, "Expect '(' after function name."),
           LAMBDA w1 : FunctionBody(IF ~check(w1, TOKEN_RIGHT_PAREN) THEN ParameterLoop(w1)
                                    ELSE w1))
  ELSE EmitClosure(endCompiler(w), Cur(w))

\* funDeclaration as it would be without markInitialized before the body.
funDeclarationUninitialized(w, f) ==
  IF f.at = "entry"
    THEN Strict(parseVariable(w, "Expect function name."),
           LAMBDA w1 : Call(w1, EnterWith("function", [type |-> "TYPE_FUNCTION"]),
                            At("funDeclaration", "define", [global |-> w1.rv])))
  ELSE defineVariable(w, f.locals.global)

funDeclaration(w, f) ==
  IF f.at = "entry"
    THEN Strict(parseVariable(w, "Expect function name."),
           LAMBDA w1 : Call(markInitialized(w1), EnterWith("function", [type |-> "TYPE_FUNCTION"]),
                            At("funDeclaration", "define", [global |-> w1.rv])))
  ELSE defineVariable(w, f.locals.global)

\* varDeclaration from the initializer on
Initializer(w1, global) ==
  IF check(w1, TOKEN_EQUAL)
    THEN Call(advance(w1), Enter("expression"),
              At("varDeclaration", "define", [global |-> global]))
  ELSE defineVariable(consume(emitByte(w1, OP_NIL), TOKEN_SEMICOLON,
                              "Expect ';' after variable declaration."),
                      global)

varDeclaration(w, f) ==
  IF f.at = "entry"
    THEN Strict(parseVariable(w, "Expect variable name."), LAMBDA w1 : Initializer(w1, w1.rv))
  ELSE defineVariable(consume(w, TOKEN_SEMICOLON, "Expect ';' after variable declaration."),
                      f.locals.global)

expressionStatement(w, f) ==
  IF f.at = "entry" THEN Call(w, Enter("expression"), At("expressionStatement", "end", <<>>))
  ELSE emitByte(consume(w, TOKEN_SEMICOLON, "Expect ';' after expression."), OP_POP)

\* ifStatement after the then branch: elseJump is patched only when there
\* is an else branch.
AfterThen(w1, elseJump, thenJump) ==
  Strict(emitByte(patchJump(w1, thenJump), OP_POP),
    LAMBDA w2 : IF check(w2, TOKEN_ELSE)
                  THEN Call(advance(w2), Enter("statement"),
                            At("ifStatement", "else", [elseJump |-> elseJump]))
                ELSE w2)

ifStatement(w, f) ==
  CASE f.at = "entry" ->
         Call(consume(w, TOKEN_LEFT_PAREN, "Expect '(' after 'if'."),
              Enter("expression"), At("ifStatement", "condition", <<>>))
    [] f.at = "condition" ->
         Strict(emitJump(consume(w, TOKEN_RIGHT_PAREN, "Expect ')' after condition."),
                         OP_JUMP_IF_FALSE),
           LAMBDA w1 : Call(emitByte(w1, OP_POP), Enter("statement"),
                            At("ifStatement", "then", [thenJump |-> w1.rv])))
    [] f.at = "then" ->
         Strict(emitJump(w, OP_JUMP), LAMBDA w1 : AfterThen(w1, w1.rv, f.locals.thenJump))
    [] OTHER -> patchJump(w, f.locals.elseJump)

\* forStatement: the body, with the loop's variables as they are now
ForBody(w, loopStart, exitJump) ==
  Call(w, Enter("statement"),
       At("forStatement", "body", [loopStart |-> loopStart, exitJump |-> exitJump]))

\* forStatement from the increment clause on
ForIncrement(w, loopStart, exitJump) ==
  IF ~check(w, TOKEN_RIGHT_PAREN)
    THEN Strict(emitJump(w, OP_JUMP),
           LAMBDA w1 : Call(w1, Enter("expression"),
                            At("forStatement", "increment",
                               [loopStart |-> loopStart, exitJump |-> exitJump,
                                bodyJump |-> w1.rv, incrementStart |-> Entries(w1)])))
  ELSE ForBody(advance(w), loopStart, exitJump)

\* forStatement from int loopStart = currentChunk()->entries on
ForCondition(w) ==
  IF ~check(w, TOKEN_SEMICOLON)
    THEN Call(w, Enter("expression"), At("forStatement", "condition", [loopStart |-> Entries(w)]))
  ELSE ForIncrement(advance(w), Entries(w), -1)

\* forStatement after the body and emitLoop
ForExit(w1, exitJump) ==
  endScope(IF exitJump # -1 THEN emitByte(patchJump(w1, exitJump), OP_POP) ELSE w1)

\* forStatement as it would be without loopStart = incrementStart.
forStatementLoopingToCondition(w, f) ==
  CASE f.at = "entry" ->
         Strict(consume(beginScope(w), TOKEN_LEFT_PAREN, "Expect '(' after 'for'."),
           LAMBDA w1 :
             IF check(w1, TOKEN_SEMICOLON) THEN ForCondition(advance(w1))
             ELSE IF check(w1, TOKEN_VAR)
               THEN Call(advance(w1), Enter("varDeclaration"),
                         At("forStatement", "initialized", <<>>))
             ELSE Call(w1, Enter("expressionStatement"), At("forStatement", "initialized", <<>>)))
    [] f.at = "initialized" -> ForCondition(w)
    [] f.at = "condition" ->
         Strict(emitJump(consume(w, TOKEN_SEMICOLON, "Expect ';' after loop condition."),
                         OP_JUMP_IF_FALSE),
           LAMBDA w1 : ForIncrement(emitByte(w1, OP_POP), f.locals.loopStart, w1.rv))
    [] f.at = "increment" ->
         ForBody(patchJump(emitLoop(consume(emitByte(w, OP_POP), TOKEN_RIGHT_PAREN,
                                            "Expect ')' after for clauses."),
                                    f.locals.loopStart),
                           f.locals.bodyJump),
                 f.locals.loopStart, f.locals.exitJump)
    [] OTHER -> ForExit(emitLoop(w, f.locals.loopStart), f.locals.exitJump)

forStatement(w, f) ==
  CASE f.at = "entry" ->
         Strict(consume(beginScope(w), TOKEN_LEFT_PAREN, "Expect '(' after 'for'."),
           LAMBDA w1 :
             IF check(w1, TOKEN_SEMICOLON) THEN ForCondition(advance(w1))
             ELSE IF check(w1, TOKEN_VAR)
               THEN Call(advance(w1), Enter("varDeclaration"),
                         At("forStatement", "initialized", <<>>))
             ELSE Call(w1, Enter("expressionStatement"), At("forStatement", "initialized", <<>>)))
    [] f.at = "initialized" -> ForCondition(w)
    [] f.at = "condition" ->
         Strict(emitJump(consume(w, TOKEN_SEMICOLON, "Expect ';' after loop condition."),
                         OP_JUMP_IF_FALSE),
           LAMBDA w1 : ForIncrement(emitByte(w1, OP_POP), f.locals.loopStart, w1.rv))
    [] f.at = "increment" ->
         ForBody(patchJump(emitLoop(consume(emitByte(w, OP_POP), TOKEN_RIGHT_PAREN,
                                            "Expect ')' after for clauses."),
                                    f.locals.loopStart),
                           f.locals.bodyJump),
                 f.locals.incrementStart, f.locals.exitJump)
    [] OTHER -> ForExit(emitLoop(w, f.locals.loopStart), f.locals.exitJump)

printStatement(w, f) ==
  IF f.at = "entry" THEN Call(w, Enter("expression"), At("printStatement", "end", <<>>))
  ELSE emitByte(consume(w, TOKEN_SEMICOLON, "Expect ';' after value."), OP_PRINT)

\* returnStatement after the check of the function type
ReturnValue(w1) ==
  IF check(w1, TOKEN_SEMICOLON) THEN emitReturn(advance(w1))
  ELSE Call(w1, Enter("expression"), At("returnStatement", "end", <<>>))

returnStatement(w, f) ==
  IF f.at = "entry"
    THEN ReturnValue(IF Cur(w).type = "TYPE_SCRIPT"
                       THEN error(w, "Can't return from top-level code.")
                     ELSE w)
  ELSE emitByte(consume(w, TOKEN_SEMICOLON, "Expect ';' after return value."), OP_RETURN)

whileStatement(w, f) ==
  CASE f.at = "entry" ->
         Call(consume(w, TOKEN_LEFT_PAREN, "Expect '(' after 'while'."), Enter("expression"),
              At("whileStatement", "condition", [loopStart |-> Entries(w)]))
    [] f.at = "condition" ->
         Strict(emitJump(consume(w, TOKEN_RIGHT_PAREN, "Expect ')' after condition."),
                         OP_JUMP_IF_FALSE),
           LAMBDA w1 : Call(emitByte(w1, OP_POP), Enter("statement"),
                            At("whileStatement", "body",
                               [loopStart |-> f.locals.loopStart, exitJump |-> w1.rv])))
    [] OTHER -> emitByte(patchJump(emitLoop(w, f.locals.loopStart), f.locals.exitJump), OP_POP)

RECURSIVE SynchronizeLoop(_)
SynchronizeLoop(w) ==
  IF w.parser.current.type = TOKEN_EOF THEN w
  ELSE IF w.parser.previous.type = TOKEN_SEMICOLON THEN w
  ELSE IF w.parser.current.type \in {TOKEN_CLASS, TOKEN_FUN, TOKEN_VAR, TOKEN_FOR, TOKEN_IF,
                                     TOKEN_WHILE, TOKEN_PRINT, TOKEN_RETURN} THEN w
  ELSE SynchronizeLoop(advance(w))

\* synchronize as it would be if it cleared hadError with panicMode.
synchronizeForgettingError(w) ==
  SynchronizeLoop([w EXCEPT !.parser.panicMode = FALSE, !.parser.hadError = FALSE])

synchronize(w) == SynchronizeLoop([w EXCEPT !.parser.panicMode = FALSE])

\* match(T) is check(T) and then advance(): the first T the current token
\* is of selects the branch.
declaration(w, f) ==
  IF f.at = "entry"
    THEN IF check(w, TOKEN_FUN)
           THEN Call(advance(w), Enter("funDeclaration"), At("declaration", "end", <<>>))
         ELSE IF check(w, TOKEN_VAR)
           THEN Call(advance(w), Enter("varDeclaration"), At("declaration", "end", <<>>))
         ELSE Call(w, Enter("statement"), At("declaration", "end", <<>>))
  ELSE IF w.parser.panicMode THEN synchronize(w) ELSE w

\* The function statement() calls for the token it matched.
StatementOf(type) ==
  CASE type = TOKEN_PRINT -> "printStatement"
    [] type = TOKEN_FOR -> "forStatement"
    [] type = TOKEN_IF -> "ifStatement"
    [] type = TOKEN_RETURN -> "returnStatement"
    [] type = TOKEN_WHILE -> "whileStatement"
    [] OTHER -> ""

statement(w, f) ==
  IF f.at = "entry"
    THEN IF StatementOf(w.parser.current.type) # ""
           THEN TailCall(advance(w), Enter(StatementOf(w.parser.current.type)))
         ELSE IF check(w, TOKEN_LEFT_BRACE)
           THEN Call(beginScope(advance(w)), Enter("block"), At("statement", "endScope", <<>>))
         ELSE TailCall(w, Enter("expressionStatement"))
  ELSE endScope(w)

\* The activation f runs its next segment.
Segment(w, f) ==
  CASE f.fn = "binary" -> binary(w, f)
    [] f.fn = "call" -> callRule(w, f)
    [] f.fn = "literal" -> literal(w, f)
    [] f.fn = "grouping" -> grouping(w, f)
    [] f.fn = "number" -> numberRule(w, f)
    [] f.fn = "or_" -> or_(w, f)
    [] f.fn = "and_" -> and_(w, f)
    [] f.fn = "string" -> stringRule(w, f)
    [] f.fn = "namedVariable" -> namedVariable(w, f)
    [] f.fn = "variable" -> variable(w, f)
    [] f.fn = "unary" -> unary(w, f)
    [] f.fn = "parsePrecedence" -> parsePrecedence(w, f)
    [] f.fn = "argumentList" -> argumentList(w, f)
    [] f.fn = "expression" -> expression(w, f)
    [] f.fn = "block" -> block(w, f)
    [] f.fn = "function" -> function(w, f)
    [] f.fn = "funDeclaration" -> funDeclaration(w, f)
    [] f.fn = "varDeclaration" -> varDeclaration(w, f)
    [] f.fn = "expressionStatement" -> expressionStatement(w, f)
    [] f.fn = "ifStatement" -> ifStatement(w, f)
    [] f.fn = "forStatement" -> forStatement(w, f)
    [] f.fn = "printStatement" -> printStatement(w, f)
    [] f.fn = "returnStatement" -> returnStatement(w, f)
    [] f.fn = "whileStatement" -> whileStatement(w, f)
    [] f.fn = "declaration" -> declaration(w, f)
    [] OTHER -> statement(w, f)

\* One step of the compiler: the innermost activation leaves the stack
\* and runs to its next call or to its return.
Step(w) ==
  Segment([w EXCEPT !.control = SubSeq(@, 1, Len(@) - 1)], w.control[Len(w.control)])

\* compile() up to its loop
CompileStart(w, src) ==
  Strict(initCompiler([w EXCEPT !.source = src, !.scanner = initScanner, !.control = <<>>],
                      "TYPE_SCRIPT"),
    LAMBDA w1 : advance([w1 EXCEPT !.parser.hadError = FALSE, !.parser.panicMode = FALSE]))

\* rv is the function, or NULL after an error.
CompileFinish(w) ==
  Strict(endCompiler(w), LAMBDA w1 : Ret(w1, IF w1.parser.hadError THEN NULL ELSE w1.rv))
(***************************************************************************)
(* Virtual machine.  v is the VM record.  vm.stack and vm.frames hold the  *)
(* slots written so far: a slot above stackTop, or a frame above           *)
(* frameCount, keeps what was last stored in it.  A CallFrame is           *)
(* [closure, ip, slots]: ip is the offset of the next byte in the chunk of *)
(* the closure's function, slots the index of the frame's slot 0 in        *)
(* vm.stack.  The location of an upvalue is an index in vm.stack.  m is    *)
(* the machine seen from outside: [vm, out, err].                          *)
(***************************************************************************)
\* a[i] = x for a C array kept as the sequence of the elements written so far
Store(a, i, x) == IF i < Len(a) THEN [a EXCEPT ![i + 1] = x] ELSE Append(a, x)

resetStack(v) == [v EXCEPT !.stackTop = 0, !.frameCount = 0]

push(v, value) ==
  [v EXCEPT !.stack = Store(@, v.stackTop, value), !.stackTop = @ + 1]

\* pop moves stackTop down; Popped is the value it returns.
pop(v) == [v EXCEPT !.stackTop = @ - 1]
Popped(v) == v.stack[v.stackTop]

peekValue(v, distance) == v.stack[v.stackTop - distance]

Frame(v) == v.frames[v.frameCount]
FrameFunction(v, frame) == v.objects[v.objects[frame.closure].function]
Chunk(v) == FrameFunction(v, Frame(v)).chunk

\* The stack trace loop of runtimeError, innermost frame first.
TraceLine(v, i) ==
  LET fn == FrameFunction(v, v.frames[i + 1])
      instruction == v.frames[i + 1].ip - 1
      line == fn.chunk.lines[instruction + 1]
  IN  IF fn.name = NULL THEN ErrLine("[line %d] in script", <<line>>, <<>>, "", "")
      ELSE ErrLine("[line %d] in %s()", <<line>>, v.objects[fn.name].chars, "", "")

\* runtimeError as it would be without the call of resetStack.
runtimeErrorWithoutReset(m, message) ==
  [m EXCEPT !.err = @ \o <<message>>
                      \o [k \in 1..m.vm.frameCount |-> TraceLine(m.vm, m.vm.frameCount - k)]]

\* runtimeError as it would be with the loop running from frame 0 upwards.
runtimeErrorOutermostFirst(m, message) ==
  [m EXCEPT !.err = @ \o <<message>>
                      \o [k \in 1..m.vm.frameCount |-> TraceLine(m.vm, k - 1)],
            !.vm = resetStack(@)]

runtimeError(m, message) ==
  [m EXCEPT !.err = @ \o <<message>>
                      \o [k \in 1..m.vm.frameCount |-> TraceLine(m.vm, m.vm.frameCount - k)],
            !.vm = resetStack(@)]

\* defineNative on the VM alone: it prints nothing.
defineNative(v, name, fn) ==
  LET c == copyString(v, name)
      v1 == push(c.vm, OBJ_VAL(c.string))
      v2 == newNative(v1, fn)
      v3 == push(v2, OBJ_VAL(Newest(v2)))
      v4 == [v3 EXCEPT !.globals = tableSet(v3.objects, @, AS_OBJ(v3.stack[1]), v3.stack[2]).table]
  IN  pop(pop(v4))

\* vm is a static object: the fields initVM does not assign, openUpvalues
\* among them, are zero.
initVM ==
  defineNative(resetStack([stack |-> <<>>, stackTop |-> 0, frames |-> <<>>, frameCount |-> 0,
                           objects |-> <<>>, globals |-> initTable, strings |-> initTable,
                           openUpvalues |-> NULL]),
               <<"c", "l", "o", "c", "k">>, "clockNative")

\* call as it would be without the check of frameCount against FRAMES_MAX.
callNoOverflowCheck(m, closure, argCount) ==
  LET fn == m.vm.objects[m.vm.objects[closure].function]
  IN  IF argCount # fn.arity
        THEN [m |-> runtimeError(m, ErrLine("Expected %d arguments but got %d.",
                                            <<fn.arity, argCount>>, <<>>, "", "")),
              ok |-> FALSE]
      ELSE [m |-> [m EXCEPT !.vm.frames = Store(@, m.vm.frameCount,
                                                [closure |-> closure, ip |-> 0,
                                                 slots |-> m.vm.stackTop - argCount - 1]),
                            !.vm.frameCount = @ + 1],
            ok |-> TRUE]

\* call as it would be with frame->slots = vm.stackTop - argCount.
callSlotsAboveCallee(m, closure, argCount) ==
  LET fn == m.vm.objects[m.vm.objects[closure].function]
  IN  IF argCount # fn.arity
        THEN [m |-> runtimeError(m, ErrLine("Expected %d arguments but got %d.",
                                            <<fn.arity, argCount>>, <<>>, "", "")),
              ok |-> FALSE]
      ELSE IF m.vm.frameCount = FRAMES_MAX
        THEN [m |-> runtimeError(m, ErrLine("Stack overflow.", <<>>, <<>>, "", "")),
              ok |-> FALSE]
      ELSE [m |-> [m EXCEPT !.vm.frames = Store(@, m.vm.frameCount,
                                                [closure |-> closure, ip |-> 0,
                                                 slots |-> m.vm.stackTop - argCount]),
                            !.vm.frameCount = @ + 1],
            ok |-> TRUE]

\* [m, ok]
call(m, closure, argCount) ==
  LET fn == m.vm.objects[m.vm.objects[closure].function]
  IN  IF argCount # fn.arity
        THEN [m |-> runtimeError(m, ErrLine("Expected %d arguments but got %d.",
                                            <<fn.arity, argCount>>, <<>>, "", "")),
              ok |-> FALSE]
      ELSE IF m.vm.frameCount = FRAMES_MAX
        THEN [m |-> runtimeError(m, ErrLine("Stack overflow.", <<>>, <<>>, "", "")),
              ok |-> FALSE]
      ELSE [m |-> [m EXCEPT !.vm.frames = Store(@, m.vm.frameCount,
                                                [closure |-> closure, ip |-> 0,
                                                 slots |-> m.vm.stackTop - argCount - 1]),
                            !.vm.frameCount = @ + 1],
            ok |-> TRUE]

\* [m, ok]; clock is what the native reads from the processor clock.
callValue(m, callee, argCount, clock) ==
  IF isObjType(m.vm, callee, "OBJ_CLOSURE") THEN call(m, AS_OBJ(callee), argCount)
  ELSE IF isObjType(m.vm, callee, "OBJ_NATIVE")
    THEN [m |-> [m EXCEPT !.vm = push([m.vm EXCEPT !.stackTop = @ - (argCount + 1)], clock)],
          ok |-> TRUE]
  ELSE [m |-> runtimeError(m, ErrLine("Can only call functions and classes.",
                                      <<>>, <<>>, "", "")),
        ok |-> FALSE]

\* The new upvalue is Newest of the result.
captureUpvalue(v, local) == newUpvalue(v, local)

concatenate(v) ==
  LET b == v.objects[AS_OBJ(Popped(v))]
      a == v.objects[AS_OBJ(Popped(pop(v)))]
      t == takeString(pop(pop(v)), a.chars \o b.chars)
  IN  push(t.vm, OBJ_VAL(t.string))

(***************************************************************************)
(* printValue: the characters printf writes.  %g prints six significant    *)
(* digits, in fixed notation for a decimal exponent from -4 to 5.          *)
(***************************************************************************)
Chars(text) ==
  CASE text = "true" -> <<"t", "r", "u", "e">>
    [] text = "false" -> <<"f", "a", "l", "s", "e">>
    [] text = "nil" -> <<"n", "i", "l">>
    [] text = "inf" -> <<"i", "n", "f">>
    [] text = "nan" -> <<"n", "a", "n">>
    [] text = "<script>" -> <<"<", "s", "c", "r", "i", "p", "t", ">">>
    [] text = "<fn " -> <<"<", "f", "n", " ">>
    [] text = "<native fn>" -> <<"<", "n", "a", "t", "i", "v", "e", " ", "f", "n", ">">>
    [] text = "upvalue" -> <<"u", "p", "v", "a", "l", "u", "e">>

\* The decimal digits of k >= 0, at least width of them.
RECURSIVE Digits(_, _)
Digits(k, width) ==
  IF k < 10 /\ width <= 1 THEN <<DigitChars[k + 1]>>
  ELSE Append(Digits(k \div 10, width - 1), DigitChars[(k % 10) + 1])

\* X with 10^X <= n/d < 10^(X+1), for n, d > 0
RECURSIVE Exp10(_, _)
Exp10(n, d) ==
  IF n >= 10 * d THEN Exp10(n, 10 * d) + 1
  ELSE IF n < d THEN Exp10(10 * n, d) - 1
  ELSE 0

\* n/d rounded to the nearest integer, ties to even
RoundDiv(n, d) ==
  LET q == n \div d
      r == n % d
  IN  IF 2 * r > d \/ (2 * r = d /\ q % 2 = 1) THEN q + 1 ELSE q

RECURSIVE StripZeros(_)
StripZeros(s) == IF Len(s) > 0 /\ Last(s) = "0" THEN StripZeros(Front(s)) ELSE s

FormatG(value) ==
  LET n == Abs(value.as)
      d == value.den
      sign == IF value.as < 0 THEN <<"-">> ELSE <<>>
      x0 == Exp10(n, d)
      m0 == IF 5 - x0 >= 0 THEN RoundDiv(n * Pow10(5 - x0), d)
            ELSE RoundDiv(n, d * Pow10(x0 - 5))
      x == IF m0 = 1000000 THEN x0 + 1 ELSE x0
      digits == Digits(IF m0 = 1000000 THEN 100000 ELSE m0, 6)
      fraction(s) == IF StripZeros(s) = <<>> THEN <<>> ELSE <<".">> \o StripZeros(s)
      zeros(k) == [i \in 1..k |-> "0"]
  IN  IF d = 0 THEN (IF n = 0 THEN Chars("nan") ELSE sign \o Chars("inf"))
      ELSE IF n = 0 THEN <<"0">>
      ELSE IF x >= 6 \/ x < -4
        THEN sign \o <<digits[1]>> \o fraction(SubSeq(digits, 2, 6))
             \o <<"e", IF x < 0 THEN "-" ELSE "+">> \o Digits(Abs(x), 2)
      ELSE IF x >= 0
        THEN sign \o SubSeq(digits, 1, x + 1) \o fraction(SubSeq(digits, x + 2, 6))
      ELSE sign \o <<"0">> \o fraction(zeros(-x - 1) \o digits)

printFunction(v, fn) ==
  IF v.objects[fn].name = NULL THEN Chars("<script>")
  ELSE Chars("<fn ") \o v.objects[v.objects[fn].name].chars \o <<">">>

printObject(v, value) ==
  LET object == v.objects[AS_OBJ(value)]
  IN  CASE object.type = "OBJ_CLOSURE" -> printFunction(v, object.function)
        [] object.type = "OBJ_FUNCTION" -> printFunction(v, AS_OBJ(value))
        [] object.type = "OBJ_NATIVE" -> Chars("<native fn>")
        [] object.type = "OBJ_STRING" -> object.chars
        [] object.type = "OBJ_UPVALUE" -> Chars("upvalue")

printValue(v, value) ==
  CASE value.type = "VAL_BOOL" -> IF AS_BOOL(value) THEN Chars("true") ELSE Chars("false")
    [] value.type = "VAL_NIL" -> Chars("nil")
    [] value.type = "VAL_NUMBER" -> FormatG(value)
    [] value.type = "VAL_OBJ" -> printObject(v, value)

(***************************************************************************)
(* The programs interpreted.  In the comments a single quote stands for    *)
(* the double quote of the source.                                         *)
(***************************************************************************)
\* fun makeCounter() { var i = 0; fun count() { i = i + 1; print i; } return count; } var c = makeCounter(); c(); c(); c();
CounterProgram ==
  <<"f", "u", "n", " ", "m", "a", "k", "e", "C", "o", "u", "n", "t", "e",
    "r", "(", ")", " ", "{", " ", "v", "a", "r", " ", "i", " ", "=", " ",
    "0", ";", " ", "f", "u", "n", " ", "c", "o", "u", "n", "t", "(", ")",
    " ", "{", " ", "i", " ", "=", " ", "i", " ", "+", " ", "1", ";", " ",
    "p", "r", "i", "n", "t", " ", "i", ";", " ", "}", " ", "r", "e", "t",
    "u", "r", "n", " ", "c", "o", "u", "n", "t", ";", " ", "}", " ", "v",
    "a", "r", " ", "c", " ", "=", " ", "m", "a", "k", "e", "C", "o", "u",
    "n", "t", "e", "r", "(", ")", ";", " ", "c", "(", ")", ";", " ", "c",
    "(", ")", ";", " ", "c", "(", ")", ";">>

\* print 1 + 'a';
AddStringProgram ==
  <<"p", "r", "i", "n", "t", " ", "1", " ", "+", " ", "\"", "a", "\"", ";">>

\* var a = 1; x = 2;
AssignUndefinedProgram ==
  <<"v", "a", "r", " ", "a", " ", "=", " ", "1", ";", " ", "x", " ", "=",
    " ", "2", ";">>

\* print a; print x;
ReadGlobalsProgram ==
  <<"p", "r", "i", "n", "t", " ", "a", ";", " ", "p", "r", "i", "n", "t",
    " ", "x", ";">>

\* fun f(a, b) { print a; print b; } f(1, 2); f(3);
ArityProgram ==
  <<"f", "u", "n", " ", "f", "(", "a", ",", " ", "b", ")", " ", "{", " ",
    "p", "r", "i", "n", "t", " ", "a", ";", " ", "p", "r", "i", "n", "t",
    " ", "b", ";", " ", "}", " ", "f", "(", "1", ",", " ", "2", ")", ";",
    " ", "f", "(", "3", ")", ";">>

\* fun f() { f(); } f();
RecursionProgram ==
  <<"f", "u", "n", " ", "f", "(", ")", " ", "{", " ", "f", "(", ")", ";",
    " ", "}", " ", "f", "(", ")", ";">>

\* var a = 3; { var b = !(a > 2 == false); b = -a * 2 / 4 - 1 < 0; print b; } print 'a' + 'b' == 'ab'; print true();
OperatorsProgram ==
  <<"v", "a", "r", " ", "a", " ", "=", " ", "3", ";", " ", "{", " ", "v",
    "a", "r", " ", "b", " ", "=", " ", "!", "(", "a", " ", ">", " ", "2",
    " ", "=", "=", " ", "f", "a", "l", "s", "e", ")", ";", " ", "b", " ",
    "=", " ", "-", "a", " ", "*", " ", "2", " ", "/", " ", "4", " ", "-",
    " ", "1", " ", "<", " ", "0", ";", " ", "p", "r", "i", "n", "t", " ",
    "b", ";", " ", "}", " ", "p", "r", "i", "n", "t", " ", "\"", "a", "\"",
    " ", "+", " ", "\"", "b", "\"", " ", "=", "=", " ", "\"", "a", "b", "\"",
    ";", " ", "p", "r", "i", "n", "t", " ", "t", "r", "u", "e", "(", ")",
    ";">>

\* var i = 0; while (i < 2) i = i + 1; for (var j = 0; j < 1; j = j + 1) print j and i; if (false) print 1; else print nil or 2;
JumpsProgram ==
  <<"v", "a", "r", " ", "i", " ", "=", " ", "0", ";", " ", "w", "h", "i",
    "l", "e", " ", "(", "i", " ", "<", " ", "2", ")", " ", "i", " ", "=",
    " ", "i", " ", "+", " ", "1", ";", " ", "f", "o", "r", " ", "(", "v",
    "a", "r", " ", "j", " ", "=", " ", "0", ";", " ", "j", " ", "<", " ",
    "1", ";", " ", "j", " ", "=", " ", "j", " ", "+", " ", "1", ")", " ",
    "p", "r", "i", "n", "t", " ", "j", " ", "a", "n", "d", " ", "i", ";",
    " ", "i", "f", " ", "(", "f", "a", "l", "s", "e", ")", " ", "p", "r",
    "i", "n", "t", " ", "1", ";", " ", "e", "l", "s", "e", " ", "p", "r",
    "i", "n", "t", " ", "n", "i", "l", " ", "o", "r", " ", "2", ";">>

\* if (1 < 2) print 1;
IfNoElseProgram ==
  <<"i", "f", " ", "(", "1", " ", "<", " ", "2", ")", " ", "p", "r", "i",
    "n", "t", " ", "1", ";">>

\* { var a = 1; fun f() { print a; } f(); } print clock() < 0;
BlockClosureProgram ==
  <<"{", " ", "v", "a", "r", " ", "a", " ", "=", " ", "1", ";", " ", "f",
    "u", "n", " ", "f", "(", ")", " ", "{", " ", "p", "r", "i", "n", "t",
    " ", "a", ";", " ", "}", " ", "f", "(", ")", ";", " ", "}", " ", "p",
    "r", "i", "n", "t", " ", "c", "l", "o", "c", "k", "(", ")", " ", "<",
    " ", "0", ";">>

\* print ; var a = 1; print a;
SyntaxErrorProgram ==
  <<"p", "r", "i", "n", "t", " ", ";", " ", "v", "a", "r", " ", "a", " ",
    "=", " ", "1", ";", " ", "p", "r", "i", "n", "t", " ", "a", ";">>

\* fun a() { var x = 1; fun b() { fun c() { x = 2; return x; } return c(); } print b(); print x; } a();
NestedUpvalueProgram ==
  <<"f", "u", "n", " ", "a", "(", ")", " ", "{", " ", "v", "a", "r", " ",
    "x", " ", "=", " ", "1", ";", " ", "f", "u", "n", " ", "b", "(", ")",
    " ", "{", " ", "f", "u", "n", " ", "c", "(", ")", " ", "{", " ", "x",
    " ", "=", " ", "2", ";", " ", "r", "e", "t", "u", "r", "n", " ", "x",
    ";", " ", "}", " ", "r", "e", "t", "u", "r", "n", " ", "c", "(", ")",
    ";", " ", "}", " ", "p", "r", "i", "n", "t", " ", "b", "(", ")", ";",
    " ", "p", "r", "i", "n", "t", " ", "x", ";", " ", "}", " ", "a", "(",
    ")", ";">>

\* fun fib(n) { if (n < 2) return n; return fib(n-1) + fib(n-2); } print fib(10);
FibProgram ==
  <<"f", "u", "n", " ", "f", "i", "b", "(", "n", ")", " ", "{", " ", "i",
    "f", " ", "(", "n", " ", "<", " ", "2", ")", " ", "r", "e", "t", "u",
    "r", "n", " ", "n", ";", " ", "r", "e", "t", "u", "r", "n", " ", "f",
    "i", "b", "(", "n", "-", "1", ")", " ", "+", " ", "f", "i", "b", "(",
    "n", "-", "2", ")", ";", " ", "}", " ", "p", "r", "i", "n", "t", " ",
    "f", "i", "b", "(", "1", "0", ")", ";">>

\* var x = 1; { var x = 2; print x; } print x;
ShadowProgram ==
  <<"v", "a", "r", " ", "x", " ", "=", " ", "1", ";", " ", "{", " ", "v",
    "a", "r", " ", "x", " ", "=", " ", "2", ";", " ", "p", "r", "i", "n",
    "t", " ", "x", ";", " ", "}", " ", "p", "r", "i", "n", "t", " ", "x",
    ";">>

\* { var x = 1; { var x = 2; x = 3; print x; } x = x + 4; print x; }
NestedShadowProgram ==
  <<"{", " ", "v", "a", "r", " ", "x", " ", "=", " ", "1", ";", " ", "{",
    " ", "v", "a", "r", " ", "x", " ", "=", " ", "2", ";", " ", "x", " ",
    "=", " ", "3", ";", " ", "p", "r", "i", "n", "t", " ", "x", ";", " ",
    "}", " ", "x", " ", "=", " ", "x", " ", "+", " ", "4", ";", " ", "p",
    "r", "i", "n", "t", " ", "x", ";", " ", "}">>

\* var a = 1; var a = 2; print a; a = 3; print a; print b;
RedefineProgram ==
  <<"v", "a", "r", " ", "a", " ", "=", " ", "1", ";", " ", "v", "a", "r",
    " ", "a", " ", "=", " ", "2", ";", " ", "p", "r", "i", "n", "t", " ",
    "a", ";", " ", "a", " ", "=", " ", "3", ";", " ", "p", "r", "i", "n",
    "t", " ", "a", ";", " ", "p", "r", "i", "n", "t", " ", "b", ";">>

\* fun b() {\n return -nil; }\nfun a() {\n b(); }\na();
TraceProgram ==
  <<"f", "u", "n", " ", "b", "(", ")", " ", "{", "\n", " ", "r", "e", "t",
    "u", "r", "n", " ", "-", "n", "i", "l", ";", " ", "}", "\n", "f", "u",
    "n", " ", "a", "(", ")", " ", "{", "\n", " ", "b", "(", ")", ";", " ",
    "}", "\n", "a", "(", ")", ";">>

\* 1;1;1;1;1;1;1;1;1;1;1;1;1;1;1;1;1;1;1;1;1;1;1;1;1;1;1;1;1;1;1;1;1;1;1;1;1;1;1;1;1;1;1;1;1;1;1;1;1;1;1;1;1;1;1;1;1;1;1;1;1;1;1;1;1;1;1;1;1;1;1;1;1;1;1;1;1;1;1;1;1;1;1;1;1;1;1;1;1;1;1;1;1;1;1;1;1;1;1;1;1;1;1;1;1;1;1;1;1;1;1;1;1;1;1;1;1;1;1;1;1;1;1;1;1;1;1;1;1;1;1;1;1;1;1;1;1;1;1;1;1;1;1;1;1;1;1;1;1;1;1;1;1;1;1;1;1;1;1;1;1;1;1;1;1;1;1;1;1;1;1;1;1;1;1;1;1;1;1;1;1;1;1;1;1;1;1;1;1;1;1;1;1;1;1;1;1;1;1;1;1;1;1;1;1;1;1;1;1;1;1;1;1;1;1;1;1;1;1;1;1;1;1;1;1;1;1;1;1;1;1;1;1;1;1;1;1;1;1;1;1;1;1;1;1;1;1;1;1;1;1;1;1;1;1;1;1;1;
ManyConstantsProgram ==
  <<"1", ";", "1", ";", "1", ";", "1", ";", "1", ";", "1", ";", "1", ";",
    "1", ";", "1", ";", "1", ";", "1", ";", "1", ";", "1", ";", "1", ";",
    "1", ";", "1", ";", "1", ";", "1", ";", "1", ";", "1", ";", "1", ";",
    "1", ";", "1", ";", "1", ";", "1", ";", "1", ";", "1", ";", "1", ";",
    "1", ";", "1", ";", "1", ";", "1", ";", "1", ";", "1", ";", "1", ";",
    "1", ";", "1", ";", "1", ";", "1", ";", "1", ";", "1", ";", "1", ";",
    "1", ";", "1", ";", "1", ";", "1", ";", "1", ";", "1", ";", "1", ";",
    "1", ";", "1", ";", "1", ";", "1", ";", "1", ";", "1", ";", "1", ";",
    "1", ";", "1", ";", "1", ";", "1", ";", "1", ";", "1", ";", "1", ";",
    "1", ";", "1", ";", "1", ";", "1", ";", "1", ";", "1", ";", "1", ";",
    "1", ";", "1", ";", "1", ";", "1", ";", "1", ";", "1", ";", "1", ";",
    "1", ";", "1", ";", "1", ";", "1", ";", "1", ";", "1", ";", "1", ";",
    "1", ";", "1", ";", "1", ";", "1", ";", "1", ";", "1", ";", "1", ";",
    "1", ";", "1", ";", "1", ";", "1", ";", "1", ";", "1", ";", "1", ";",
    "1", ";", "1", ";", "1", ";", "1", ";", "1", ";", "1", ";", "1", ";",
    "1", ";", "1", ";", "1", ";", "1", ";", "1", ";", "1", ";", "1", ";",
    "1", ";", "1", ";", "1", ";", "1", ";", "1", ";", "1", ";", "1", ";",
    "1", ";", "1", ";", "1", ";", "1", ";", "1", ";", "1", ";", "1", ";",
    "1", ";", "1", ";", "1", ";", "1", ";", "1", ";", "1", ";", "1", ";",
    "1", ";", "1", ";", "1", ";", "1", ";", "1", ";", "1", ";", "1", ";",
    "1", ";", "1", ";", "1", ";", "1", ";", "1", ";", "1", ";", "1", ";",
    "1", ";", "1", ";", "1", ";", "1", ";", "1", ";", "1", ";", "1", ";",
    "1", ";", "1", ";", "1", ";", "1", ";", "1", ";", "1", ";", "1", ";",
    "1", ";", "1", ";", "1", ";", "1", ";", "1", ";", "1", ";", "1", ";",
    "1", ";", "1", ";", "1", ";", "1", ";", "1", ";", "1", ";", "1", ";",
    "1", ";", "1", ";", "1", ";", "1", ";", "1", ";", "1", ";", "1", ";",
    "1", ";", "1", ";", "1", ";", "1", ";", "1", ";", "1", ";", "1", ";",
    "1", ";", "1", ";", "1", ";", "1", ";", "1", ";", "1", ";", "1", ";",
    "1", ";", "1", ";", "1", ";", "1", ";", "1", ";", "1", ";", "1", ";",
    "1", ";", "1", ";", "1", ";", "1", ";", "1", ";", "1", ";", "1", ";",
    "1", ";", "1", ";", "1", ";", "1", ";", "1", ";", "1", ";", "1", ";",
    "1", ";", "1", ";", "1", ";", "1", ";", "1", ";", "1", ";", "1", ";",
    "1", ";", "1", ";", "1", ";", "1", ";", "1", ";", "1", ";", "1", ";",
    "1", ";", "1", ";", "1", ";", "1", ";", "1", ";", "1", ";", "1", ";",
    "1", ";", "1", ";", "1", ";", "1", ";", "1", ";", "1", ";", "1", ";",
    "1", ";", "1", ";", "1", ";", "1", ";", "1", ";", "1", ";", "1", ";",
    "1", ";", "1", ";", "1", ";", "1", ";", "1", ";", "1", ";">>

\* fun f() {} print !!0; print !!''; print !!f; print !!clock; print !!nil; print !!false; print !!true; print 0 and 1; print '' and 2; print f and 3; print nil and 4; print false and 5;
FalseyProgram ==
  <<"f", "u", "n", " ", "f", "(", ")", " ", "{", "}", " ", "p", "r", "i",
    "n", "t", " ", "!", "!", "0", ";", " ", "p", "r", "i", "n", "t", " ",
    "!", "!", "\"", "\"", ";", " ", "p", "r", "i", "n", "t", " ", "!", "!",
    "f", ";", " ", "p", "r", "i", "n", "t", " ", "!", "!", "c", "l", "o",
    "c", "k", ";", " ", "p", "r", "i", "n", "t", " ", "!", "!", "n", "i",
    "l", ";", " ", "p", "r", "i", "n", "t", " ", "!", "!", "f", "a", "l",
    "s", "e", ";", " ", "p", "r", "i", "n", "t", " ", "!", "!", "t", "r",
    "u", "e", ";", " ", "p", "r", "i", "n", "t", " ", "0", " ", "a", "n",
    "d", " ", "1", ";", " ", "p", "r", "i", "n", "t", " ", "\"", "\"", " ",
    "a", "n", "d", " ", "2", ";", " ", "p", "r", "i", "n", "t", " ", "f",
    " ", "a", "n", "d", " ", "3", ";", " ", "p", "r", "i", "n", "t", " ",
    "n", "i", "l", " ", "a", "n", "d", " ", "4", ";", " ", "p", "r", "i",
    "n", "t", " ", "f", "a", "l", "s", "e", " ", "a", "n", "d", " ", "5",
    ";">>

\* { { var a = 1; fun f() { print a; } } var b = 2; print b; }
CapturedScopeProgram ==
  <<"{", " ", "{", " ", "v", "a", "r", " ", "a", " ", "=", " ", "1", ";",
    " ", "f", "u", "n", " ", "f", "(", ")", " ", "{", " ", "p", "r", "i",
    "n", "t", " ", "a", ";", " ", "}", " ", "}", " ", "v", "a", "r", " ",
    "b", " ", "=", " ", "2", ";", " ", "p", "r", "i", "n", "t", " ", "b",
    ";", " ", "}">>

\* if (true) print 1; else print 2; if (nil) print 3; else print 4; if (false) print 5; print 6; if (true) print 7; print 8;
IfProgram ==
  <<"i", "f", " ", "(", "t", "r", "u", "e", ")", " ", "p", "r", "i", "n",
    "t", " ", "1", ";", " ", "e", "l", "s", "e", " ", "p", "r", "i", "n",
    "t", " ", "2", ";", " ", "i", "f", " ", "(", "n", "i", "l", ")", " ",
    "p", "r", "i", "n", "t", " ", "3", ";", " ", "e", "l", "s", "e", " ",
    "p", "r", "i", "n", "t", " ", "4", ";", " ", "i", "f", " ", "(", "f",
    "a", "l", "s", "e", ")", " ", "p", "r", "i", "n", "t", " ", "5", ";",
    " ", "p", "r", "i", "n", "t", " ", "6", ";", " ", "i", "f", " ", "(",
    "t", "r", "u", "e", ")", " ", "p", "r", "i", "n", "t", " ", "7", ";",
    " ", "p", "r", "i", "n", "t", " ", "8", ";">>

\* fun p(x) { print x; return x; } { for (var i = p(0); p(i + 10) < 12; i = p(i + 1)) print 100; var b = 9; print b; }
ForProgram ==
  <<"f", "u", "n", " ", "p", "(", "x", ")", " ", "{", " ", "p", "r", "i",
    "n", "t", " ", "x", ";", " ", "r", "e", "t", "u", "r", "n", " ", "x",
    ";", " ", "}", " ", "{", " ", "f", "o", "r", " ", "(", "v", "a", "r",
    " ", "i", " ", "=", " ", "p", "(", "0", ")", ";", " ", "p", "(", "i",
    " ", "+", " ", "1", "0", ")", " ", "<", " ", "1", "2", ";", " ", "i",
    " ", "=", " ", "p", "(", "i", " ", "+", " ", "1", ")", ")", " ", "p",
    "r", "i", "n", "t", " ", "1", "0", "0", ";", " ", "v", "a", "r", " ",
    "b", " ", "=", " ", "9", ";", " ", "p", "r", "i", "n", "t", " ", "b",
    ";", " ", "}">>

\* fun p(x) { print x; return x; } print p(1) and p(2); print p(nil) and p(3); print p(false) or p(4); print p(5) or p(6);
AndOrProgram ==
  <<"f", "u", "n", " ", "p", "(", "x", ")", " ", "{", " ", "p", "r", "i",
    "n", "t", " ", "x", ";", " ", "r", "e", "t", "u", "r", "n", " ", "x",
    ";", " ", "}", " ", "p", "r", "i", "n", "t", " ", "p", "(", "1", ")",
    " ", "a", "n", "d", " ", "p", "(", "2", ")", ";", " ", "p", "r", "i",
    "n", "t", " ", "p", "(", "n", "i", "l", ")", " ", "a", "n", "d", " ",
    "p", "(", "3", ")", ";", " ", "p", "r", "i", "n", "t", " ", "p", "(",
    "f", "a", "l", "s", "e", ")", " ", "o", "r", " ", "p", "(", "4", ")",
    ";", " ", "p", "r", "i", "n", "t", " ", "p", "(", "5", ")", " ", "o",
    "r", " ", "p", "(", "6", ")", ";">>

\* { var a = a; } var b = 1; { var b = b; } { var c = 1; { var c = c; } }
OwnInitializerProgram ==
  <<"{", " ", "v", "a", "r", " ", "a", " ", "=", " ", "a", ";", " ", "}",
    " ", "v", "a", "r", " ", "b", " ", "=", " ", "1", ";", " ", "{", " ",
    "v", "a", "r", " ", "b", " ", "=", " ", "b", ";", " ", "}", " ", "{",
    " ", "v", "a", "r", " ", "c", " ", "=", " ", "1", ";", " ", "{", " ",
    "v", "a", "r", " ", "c", " ", "=", " ", "c", ";", " ", "}", " ", "}">>

\* { fun f(n) { if (n < 1) return 0; return f(n - 1) + 1; } print f(2); }
LocalRecursionProgram ==
  <<"{", " ", "f", "u", "n", " ", "f", "(", "n", ")", " ", "{", " ", "i",
    "f", " ", "(", "n", " ", "<", " ", "1", ")", " ", "r", "e", "t", "u",
    "r", "n", " ", "0", ";", " ", "r", "e", "t", "u", "r", "n", " ", "f",
    "(", "n", " ", "-", " ", "1", ")", " ", "+", " ", "1", ";", " ", "}",
    " ", "p", "r", "i", "n", "t", " ", "f", "(", "2", ")", ";", " ", "}">>

\* { var a = 1; var a = 2; } { var c = 1; { var c = 2; print c; } } fun f(b, b) {}
DuplicateLocalProgram ==
  <<"{", " ", "v", "a", "r", " ", "a", " ", "=", " ", "1", ";", " ", "v",
    "a", "r", " ", "a", " ", "=", " ", "2", ";", " ", "}", " ", "{", " ",
    "v", "a", "r", " ", "c", " ", "=", " ", "1", ";", " ", "{", " ", "v",
    "a", "r", " ", "c", " ", "=", " ", "2", ";", " ", "p", "r", "i", "n",
    "t", " ", "c", ";", " ", "}", " ", "}", " ", "f", "u", "n", " ", "f",
    "(", "b", ",", " ", "b", ")", " ", "{", "}">>

\* print
EofErrorProgram ==
  <<"p", "r", "i", "n", "t">>

\* \n\n\n\n\n\n\n\n\n\n\n\n\n\n\n\n\n\n\n\n\n\n\n\n\n\n\n\n\n\n\n\n\n\n\n\n\n\nprint ;
LineOfEofProgram ==
  <<"\n", "\n", "\n", "\n", "\n", "\n", "\n", "\n", "\n", "\n", "\n", "\n",
    "\n", "\n", "\n", "\n", "\n", "\n", "\n", "\n", "\n", "\n", "\n", "\n",
    "\n", "\n", "\n", "\n", "\n", "\n", "\n", "\n", "\n", "\n", "\n", "\n",
    "\n", "\n", "p", "r", "i", "n", "t", " ", ";">>

\* print ) ) ) @ ) ; var = 2; print 3; print ;
PanicProgram ==
  <<"p", "r", "i", "n", "t", " ", ")", " ", ")", " ", ")", " ", "@", " ",
    ")", " ", ";", " ", "v", "a", "r", " ", "=", " ", "2", ";", " ", "p",
    "r", "i", "n", "t", " ", "3", ";", " ", "p", "r", "i", "n", "t", " ",
    ";">>

\* for (;;) { var a; if (false) { fun f() { a; } } }
StackLoopProgram ==
  <<"f", "o", "r", " ", "(", ";", ";", ")", " ", "{", " ", "v", "a", "r",
    " ", "a", ";", " ", "i", "f", " ", "(", "f", "a", "l", "s", "e", ")",
    " ", "{", " ", "f", "u", "n", " ", "f", "(", ")", " ", "{", " ", "a",
    ";", " ", "}", " ", "}", " ", "}">>

\* while (true) { var a; if (false) { fun f() { a; } } }
StackWhileProgram ==
  <<"w", "h", "i", "l", "e", " ", "(", "t", "r", "u", "e", ")", " ", "{",
    " ", "v", "a", "r", " ", "a", ";", " ", "i", "f", " ", "(", "f", "a",
    "l", "s", "e", ")", " ", "{", " ", "f", "u", "n", " ", "f", "(", ")",
    " ", "{", " ", "a", ";", " ", "}", " ", "}", " ", "}">>

\* for (;;) { var a; var b; if (false) { fun f() { a; b; } } }
StackTwoProgram ==
  <<"f", "o", "r", " ", "(", ";", ";", ")", " ", "{", " ", "v", "a", "r",
    " ", "a", ";", " ", "v", "a", "r", " ", "b", ";", " ", "i", "f", " ",
    "(", "f", "a", "l", "s", "e", ")", " ", "{", " ", "f", "u", "n", " ",
    "f", "(", ")", " ", "{", " ", "a", ";", " ", "b", ";", " ", "}", " ",
    "}", " ", "}">>

Programs ==
  {CounterProgram,
   AddStringProgram,
   AssignUndefinedProgram,
   ReadGlobalsProgram,
   ArityProgram,
   RecursionProgram,
   OperatorsProgram,
   JumpsProgram,
   IfNoElseProgram,
   BlockClosureProgram,
   SyntaxErrorProgram,
   NestedUpvalueProgram,
   FibProgram,
   ShadowProgram,
   NestedShadowProgram,
   RedefineProgram,
   TraceProgram,
   ManyConstantsProgram,
   FalseyProgram,
   CapturedScopeProgram,
   IfProgram,
   ForProgram,
   AndOrProgram,
   OwnInitializerProgram,
   LocalRecursionProgram,
   DuplicateLocalProgram,
   EofErrorProgram,
   LineOfEofProgram,
   PanicProgram}


(***************************************************************************)
(* The interpreter session: interpret is called on one VM with one source  *)
(* after the other, as the REPL does.  A call is the step Interpret (the   *)
(* start of compile), the steps Declaration and CompileStep of the loop of  *)
(* compile, the step CompileReturn (the end of compile and the part of     *)
(* interpret before run), and one step for each instruction run decodes.   *)
(* out and err hold what the call in progress, or the last one, wrote.     *)
(* hist records the sources interpreted, the number of instructions the    *)
(* call has executed and, for each frame pushed by OP_CALL that is still   *)
(* active, the slots below the callee as they were when the call was made. *)
(***************************************************************************)
MaxInterpret == 2

\* The first call of a session interprets any of the programs; the calls
\* after it interpret the programs that use what an earlier call left in
\* the VM, and one that does not compile.
LaterPrograms == {AssignUndefinedProgram, ReadGlobalsProgram, SyntaxErrorProgram}

\* What clock() / CLOCKS_PER_SEC can be.
ClockValues == {NUMBER_VAL(0, 1), NUMBER_VAL(3, 2)}

ZeroToken == [type |-> 0, start |-> 0, length |-> 0, line |-> 0, message |-> ""]

Init ==
  /\ vm = initVM
  /\ source = <<>>
  /\ scanner = [start |-> 0, current |-> 0, line |-> 0]
  /\ parser = [current |-> ZeroToken, previous |-> ZeroToken,
               hadError |-> FALSE, panicMode |-> FALSE]
  /\ current = <<>>
  /\ control = <<>>
  /\ out = <<>>
  /\ err = <<>>
  /\ pc = "idle"
  /\ result = "NONE"
  /\ calls = 0
  /\ hist = [executed |-> 0, programs |-> <<>>, made |-> <<>>]
  /\ table = initTable
  /\ shadow = <<>>
  /\ ret = 0

World ==
  [vm |-> vm, source |-> source, scanner |-> scanner, parser |-> parser,
   current |-> current, control |-> control, err |-> err, rv |-> ret]

Machine == [vm |-> vm, out |-> out, err |-> err]

SetWorld(w) ==
  /\ vm' = w.vm
  /\ source' = w.source
  /\ scanner' = w.scanner
  /\ parser' = w.parser
  /\ current' = w.current
  /\ control' = w.control
  /\ ret' = w.rv
  /\ err' = w.err

\* interpret: the call of compile, up to its loop
Interpret(src) ==
  /\ pc = "idle"
  /\ calls < MaxInterpret
  /\ SetWorld(CompileStart([World EXCEPT !.err = <<>>], src))
  /\ out' = <<>>
  /\ pc' = "compile"
  /\ calls' = calls + 1
  /\ hist' = [executed |-> 0, programs |-> Append(hist.programs, src), made |-> <<>>]
  /\ UNCHANGED <<result, table, shadow>>

\* compile: match(TOKEN_EOF) fails and the loop calls declaration()
Declaration ==
  /\ pc = "compile"
  /\ control = <<>>
  /\ ~check(World, TOKEN_EOF)
  /\ SetWorld(TailCall(World, Enter("declaration")))
  /\ UNCHANGED <<out, pc, result, calls, hist, table, shadow>>

\* compile: the innermost function of the compiler goes on to its next
\* call or to its return
CompileStep ==
  /\ pc = "compile"
  /\ control # <<>>
  /\ SetWorld(Step(World))
  /\ UNCHANGED <<out, pc, result, calls, hist, table, shadow>>

\* interpret from push(OBJ_VAL(function)) to call(closure, 0), v1 being
\* the VM after newClosure
CallScript(v1, e) ==
  call([vm |-> push(pop(v1), OBJ_VAL(Newest(v1))), out |-> out, err |-> e], Newest(v1), 0)

CompiledResettingStack(w) ==
  IF w.rv = NULL
    THEN /\ SetWorld([w EXCEPT !.vm = resetStack(@)])
         /\ pc' = "idle"
         /\ result' = "INTERPRET_COMPILE_ERROR"
  ELSE /\ \E c \in {CallScript(newClosure(push(w.vm, OBJ_VAL(w.rv)), w.rv), w.err)} :
            /\ SetWorld([w EXCEPT !.vm = c.m.vm, !.err = c.m.err])
            /\ pc' = IF c.ok THEN "run" ELSE "undefined"
       /\ UNCHANGED result

\* interpret with the function compile returned in w.rv
Compiled(w) ==
  IF w.rv = NULL
    THEN /\ SetWorld(w)
         /\ pc' = "idle"
         /\ result' = "INTERPRET_COMPILE_ERROR"
  ELSE /\ \E c \in {CallScript(newClosure(push(w.vm, OBJ_VAL(w.rv)), w.rv), w.err)} :
            /\ SetWorld([w EXCEPT !.vm = c.m.vm, !.err = c.m.err])
            /\ pc' = IF c.ok THEN "run" ELSE "undefined"
       /\ UNCHANGED result

\* compile: the last match(TOKEN_EOF) and the return; then interpret up to run
CompileReturn ==
  /\ pc = "compile"
  /\ control = <<>>
  /\ check(World, TOKEN_EOF)
  /\ \E w \in {CompileFinish(advance(World))} : Compiled(w)
  /\ UNCHANGED <<out, calls, hist, table, shadow>>

(***************************************************************************)
(* run.  The frame of run is the top frame: run reloads it after OP_CALL   *)
(* and OP_RETURN, the two instructions that change frameCount.             *)
(***************************************************************************)
InChunk == pc = "run" /\ Frame(vm).ip < Len(Chunk(vm).code)

\* The byte READ_BYTE yields at the start of the loop and the n-th after it.
Instruction == Chunk(vm).code[Frame(vm).ip + 1]
Operand(n) == Chunk(vm).code[Frame(vm).ip + 1 + n]
Executing(op) == InChunk /\ Instruction = op

\* The VM after n uses of READ_BYTE.
Skip(v, n) == [v EXCEPT !.frames[v.frameCount].ip = @ + n]

READ_CONSTANT == Chunk(vm).constants[Operand(1) + 1]
READ_STRING == AS_OBJ(READ_CONSTANT)
READ_SHORT == Operand(1) * 256 + Operand(2)

\* break: the loop of run goes on with the VM v, made being the calls in
\* progress.
Continue(v, made) ==
  /\ vm' = v
  /\ hist' = [hist EXCEPT !.executed = @ + 1, !.made = made]
  /\ UNCHANGED <<source, scanner, parser, current, control, out, err, pc, result, calls,
                 table, shadow, ret>>

Resume(v) == Continue(v, hist.made)

\* return INTERPRET_RUNTIME_ERROR, after runtimeError gave the machine m
Raise(m) ==
  /\ vm' = m.vm
  /\ err' = m.err
  /\ pc' = "idle"
  /\ result' = "INTERPRET_RUNTIME_ERROR"
  /\ hist' = [hist EXCEPT !.executed = @ + 1]
  /\ UNCHANGED <<source, scanner, parser, current, control, out, calls, table, shadow, ret>>

OpConstant == Executing(OP_CONSTANT) /\ Resume(push(Skip(vm, 2), READ_CONSTANT))
OpNil == Executing(OP_NIL) /\ Resume(push(Skip(vm, 1), NIL_VAL))
OpTrue == Executing(OP_TRUE) /\ Resume(push(Skip(vm, 1), BOOL_VAL(TRUE)))
OpFalse == Executing(OP_FALSE) /\ Resume(push(Skip(vm, 1), BOOL_VAL(FALSE)))
OpPop == Executing(OP_POP) /\ Resume(pop(Skip(vm, 1)))

\* OP_GET_LOCAL as it would be with vm.stack[slot] for frame->slots[slot].
OpGetLocalFromStackBase ==
  /\ Executing(OP_GET_LOCAL)
  /\ Resume(push(Skip(vm, 2), vm.stack[Operand(1) + 1]))

OpGetLocal ==
  /\ Executing(OP_GET_LOCAL)
  /\ Resume(push(Skip(vm, 2), vm.stack[Frame(vm).slots + Operand(1) + 1]))

OpSetLocal ==
  /\ Executing(OP_SET_LOCAL)
  /\ Resume([Skip(vm, 2) EXCEPT
               !.stack = Store(@, Frame(vm).slots + Operand(1), peekValue(vm, 0))])

OpGetGlobal ==
  /\ Executing(OP_GET_GLOBAL)
  /\ LET name == READ_STRING
         got == tableGet(vm.objects, vm.globals, name)
     IN  IF ~got.found
           THEN Raise(runtimeError([Machine EXCEPT !.vm = Skip(vm, 2)],
                                   ErrLine("Undefined variable '%s'.", <<>>,
                                           vm.objects[name].chars, "", "")))
         ELSE Resume(push(Skip(vm, 2), got.value))

\* OP_DEFINE_GLOBAL as it would be if a defined name kept its value.
OpDefineGlobalOnce ==
  /\ Executing(OP_DEFINE_GLOBAL)
  /\ Resume(pop([Skip(vm, 2) EXCEPT
                   !.globals = IF tableGet(vm.objects, @, READ_STRING).found THEN @
                               ELSE tableSet(vm.objects, @, READ_STRING, peekValue(vm, 0)).table]))

OpDefineGlobal ==
  /\ Executing(OP_DEFINE_GLOBAL)
  /\ Resume(pop([Skip(vm, 2) EXCEPT
                   !.globals = tableSet(vm.objects, @, READ_STRING, peekValue(vm, 0)).table]))

\* OP_SET_GLOBAL as it would be without the tableDelete before the error.
OpSetGlobalKeepingEntry ==
  /\ Executing(OP_SET_GLOBAL)
  /\ \E set \in {tableSet(vm.objects, vm.globals, READ_STRING, peekValue(vm, 0))} :
       IF set.isNewKey
         THEN Raise(runtimeError(
                [Machine EXCEPT !.vm = [Skip(vm, 2) EXCEPT !.globals = set.table]],
                ErrLine("Undefined variable '%s'.", <<>>, vm.objects[READ_STRING].chars,
                        "", "")))
       ELSE Resume([Skip(vm, 2) EXCEPT !.globals = set.table])

OpSetGlobal ==
  /\ Executing(OP_SET_GLOBAL)
  /\ LET name == READ_STRING
         set == tableSet(vm.objects, vm.globals, name, peekValue(vm, 0))
     IN  IF set.isNewKey
           THEN Raise(runtimeError(
                  [Machine EXCEPT
                     !.vm = [Skip(vm, 2) EXCEPT
                               !.globals = tableDelete(vm.objects, set.table, name).table]],
                  ErrLine("Undefined variable '%s'.", <<>>, vm.objects[name].chars, "", "")))
         ELSE Resume([Skip(vm, 2) EXCEPT !.globals = set.table])

\* frame->closure->upvalues[slot]->location
Location(slot) == vm.objects[vm.objects[Frame(vm).closure].upvalues[slot + 1]].location

OpGetUpvalue ==
  /\ Executing(OP_GET_UPVALUE)
  /\ Resume(push(Skip(vm, 2), vm.stack[Location(Operand(1)) + 1]))

OpSetUpvalue ==
  /\ Executing(OP_SET_UPVALUE)
  /\ Resume([Skip(vm, 2) EXCEPT !.stack = Store(@, Location(Operand(1)), peekValue(vm, 0))])

OpEqual ==
  /\ Executing(OP_EQUAL)
  /\ Resume(push(pop(pop(Skip(vm, 1))),
                 BOOL_VAL(valuesEqual(peekValue(vm, 1), peekValue(vm, 0)))))

\* BINARY_OP(valueType, operator)
BINARY_OP(apply(_, _)) ==
  IF ~IS_NUMBER(peekValue(vm, 0)) \/ ~IS_NUMBER(peekValue(vm, 1))
    THEN Raise(runtimeError([Machine EXCEPT !.vm = Skip(vm, 1)],
                            ErrLine("Operands must be numbers.", <<>>, <<>>, "", "")))
  ELSE Resume(push(pop(pop(Skip(vm, 1))), apply(peekValue(vm, 1), peekValue(vm, 0))))

OpGreater == Executing(OP_GREATER) /\ BINARY_OP(LAMBDA a, b : BOOL_VAL(NumLess(b, a)))
OpLess == Executing(OP_LESS) /\ BINARY_OP(LAMBDA a, b : BOOL_VAL(NumLess(a, b)))

OpAdd ==
  /\ Executing(OP_ADD)
  /\ IF IS_STRING(vm, peekValue(vm, 0)) /\ IS_STRING(vm, peekValue(vm, 1))
       THEN Resume(concatenate(Skip(vm, 1)))
     ELSE IF IS_NUMBER(peekValue(vm, 0)) /\ IS_NUMBER(peekValue(vm, 1))
       THEN Resume(push(pop(pop(Skip(vm, 1))), NumAdd(peekValue(vm, 1), peekValue(vm, 0))))
     ELSE Raise(runtimeError([Machine EXCEPT !.vm = Skip(vm, 1)],
                             ErrLine("Operands must be two numbers or two strings.",
                                     <<>>, <<>>, "", "")))

OpSubtract == Executing(OP_SUBTRACT) /\ BINARY_OP(NumSub)
OpMultiply == Executing(OP_MULTIPLY) /\ BINARY_OP(NumMul)
OpDivide == Executing(OP_DIVIDE) /\ BINARY_OP(NumDiv)

OpNot ==
  /\ Executing(OP_NOT)
  /\ Resume(push(pop(Skip(vm, 1)), BOOL_VAL(isFalsey(peekValue(vm, 0)))))

OpNegate ==
  /\ Executing(OP_NEGATE)
  /\ IF ~IS_NUMBER(peekValue(vm, 0))
       THEN Raise(runtimeError([Machine EXCEPT !.vm = Skip(vm, 1)],
                               ErrLine("Operand must be a number.", <<>>, <<>>, "", "")))
     ELSE Resume(push(pop(Skip(vm, 1)), NumNeg(peekValue(vm, 0))))

OpPrint ==
  /\ Executing(OP_PRINT)
  /\ vm' = pop(Skip(vm, 1))
  /\ out' = Append(out, printValue(vm, peekValue(vm, 0)))
  /\ hist' = [hist EXCEPT !.executed = @ + 1]
  /\ UNCHANGED <<source, scanner, parser, current, control, err, pc, result, calls, table, shadow, ret>>

OpJump == Executing(OP_JUMP) /\ Resume(Skip(vm, 3 + READ_SHORT))

OpJumpIfFalse ==
  /\ Executing(OP_JUMP_IF_FALSE)
  /\ Resume(Skip(vm, IF isFalsey(peekValue(vm, 0)) THEN 3 + READ_SHORT ELSE 3))

OpLoop == Executing(OP_LOOP) /\ Resume(Skip(vm, 3 - READ_SHORT))

OpCall ==
  /\ Executing(OP_CALL)
  /\ \E clock \in ClockValues :
       LET argCount == Operand(1)
           c == callValue([Machine EXCEPT !.vm = Skip(vm, 2)],
                          peekValue(vm, argCount), argCount, clock)
       IN  IF ~c.ok THEN Raise(c.m)
           ELSE IF c.m.vm.frameCount = vm.frameCount THEN Resume(c.m.vm)
           ELSE Continue(c.m.vm,
                         Append(hist.made, SubSeq(vm.stack, 1, vm.stackTop - argCount - 1)))

\* The loop of OP_CLOSURE over the upvalues of the closure.
RECURSIVE CaptureLoop(_, _, _)
CaptureLoop(v, closure, i) ==
  IF i >= Len(v.objects[closure].upvalues) THEN v
  ELSE LET code == Chunk(v).code
           isLocal == code[Frame(v).ip + 1]
           index == code[Frame(v).ip + 2]
           v1 == captureUpvalue(v, Frame(v).slots + index)
       IN  CaptureLoop(
             Skip(IF isLocal # 0
                    THEN [v1 EXCEPT !.objects[closure].upvalues[i + 1] = Newest(v1)]
                  ELSE [v EXCEPT !.objects[closure].upvalues[i + 1] =
                                   v.objects[Frame(v).closure].upvalues[index + 1]], 2),
             closure, i + 1)

OpClosure ==
  /\ Executing(OP_CLOSURE)
  /\ LET v1 == newClosure(Skip(vm, 2), AS_OBJ(READ_CONSTANT))
     IN  Resume(CaptureLoop(push(v1, OBJ_VAL(Newest(v1))), Newest(v1), 0))

\* OP_RETURN as it would be with vm.stackTop = frame->slots + 1.
OpReturnAboveCallee ==
  /\ Executing(OP_RETURN)
  /\ \E v1 \in {[pop(Skip(vm, 1)) EXCEPT !.frameCount = @ - 1]} :
       IF v1.frameCount = 0
         THEN /\ vm' = pop(v1)
              /\ pc' = "idle"
              /\ result' = "INTERPRET_OK"
              /\ hist' = [hist EXCEPT !.executed = @ + 1]
              /\ UNCHANGED <<source, scanner, parser, current, control, out, err, calls,
                             table, shadow, ret>>
       ELSE Continue(push([v1 EXCEPT !.stackTop = Frame(vm).slots + 1], peekValue(vm, 0)),
                     Front(hist.made))

OpReturn ==
  /\ Executing(OP_RETURN)
  /\ LET value == peekValue(vm, 0)
         v1 == [pop(Skip(vm, 1)) EXCEPT !.frameCount = @ - 1]
     IN  IF v1.frameCount = 0
           THEN /\ vm' = pop(v1)
                /\ pc' = "idle"
                /\ result' = "INTERPRET_OK"
                /\ hist' = [hist EXCEPT !.executed = @ + 1]
                /\ UNCHANGED <<source, scanner, parser, current, control, out, err, calls,
                               table, shadow, ret>>
         ELSE Continue(push([v1 EXCEPT !.stackTop = Frame(vm).slots], value),
                       Front(hist.made))

\* A byte the switch of run has no case for, OP_CLOSE_UPVALUE among them:
\* nothing is done and the loop goes on.
OpNoCase ==
  /\ InChunk
  /\ Instruction \notin {OP_CONSTANT, OP_NIL, OP_TRUE, OP_FALSE, OP_POP, OP_GET_LOCAL,
                         OP_SET_LOCAL, OP_GET_GLOBAL, OP_DEFINE_GLOBAL, OP_SET_GLOBAL,
                         OP_GET_UPVALUE, OP_SET_UPVALUE, OP_EQUAL, OP_GREATER, OP_LESS,
                         OP_ADD, OP_SUBTRACT, OP_MULTIPLY, OP_DIVIDE, OP_NOT, OP_NEGATE,
                         OP_PRINT, OP_JUMP, OP_JUMP_IF_FALSE, OP_LOOP, OP_CALL,
                         OP_CLOSURE, OP_RETURN}
  /\ Resume(Skip(vm, 1))

\* READ_BYTE with ip outside the code of the chunk reads memory that is not
\* the chunk: undefined behaviour.  Whatever the process then does, the
\* call ends the session in one of these ways.
UndefinedOutcomes == {"INTERPRET_OK", "INTERPRET_RUNTIME_ERROR", "CRASH"}

FetchOutsideChunk ==
  /\ pc = "run"
  /\ ~InChunk
  /\ pc' = "undefined"
  /\ result' \in UndefinedOutcomes
  /\ UNCHANGED <<vm, source, scanner, parser, current, control, out, err, calls, hist,
                 table, shadow, ret>>

Next ==
  \/ \E src \in IF calls = 0 THEN Programs ELSE LaterPrograms : Interpret(src)
  \/ Declaration
  \/ CompileStep
  \/ CompileReturn
  \/ OpConstant
  \/ OpNil
  \/ OpTrue
  \/ OpFalse
  \/ OpPop
  \/ OpGetLocal
  \/ OpSetLocal
  \/ OpGetGlobal
  \/ OpDefineGlobal
  \/ OpSetGlobal
  \/ OpGetUpvalue
  \/ OpSetUpvalue
  \/ OpEqual
  \/ OpGreater
  \/ OpLess
  \/ OpAdd
  \/ OpSubtract
  \/ OpMultiply
  \/ OpDivide
  \/ OpNot
  \/ OpNegate
  \/ OpPrint
  \/ OpJump
  \/ OpJumpIfFalse
  \/ OpLoop
  \/ OpCall
  \/ OpClosure
  \/ OpReturn
  \/ OpNoCase
  \/ FetchOutsideChunk

Spec == Init /\ [][Next]_vars

(***************************************************************************)
(* Properties of the interpreter session.                                  *)
(***************************************************************************)
\* The call of interpret in progress, or else the last one, was given src.
Interpreting(src) == hist.programs # <<>> /\ hist.programs[Len(hist.programs)] = src

\* interpret has returned, or the process has left defined behaviour.
Ended == calls > 0 /\ pc \notin {"compile", "run"}

\* The line of standard error that is this message without arguments.
Message(text) == ErrLine(text, <<>>, <<>>, "", "")

RuntimeErrorReturned == pc = "idle" /\ result = "INTERPRET_RUNTIME_ERROR"

\* C1: interpreting the counter program on a fresh VM prints 1, then 2,
\* then 3 and returns INTERPRET_OK.
C1_CounterPrintsOneTwoThree ==
  (calls = 1 /\ Interpreting(CounterProgram) /\ Ended) =>
    (pc = "idle" /\ result = "INTERPRET_OK" /\ out = <<<<"1">>, <<"2">>, <<"3">>>>)

\* C2: interpreting print 1 + "a"; on a fresh VM returns
\* INTERPRET_RUNTIME_ERROR, prints nothing, and writes the message of
\* OP_ADD followed by the trace line [line 1] in script.
C2_AddStringReportsLineOne ==
  (calls = 1 /\ Interpreting(AddStringProgram) /\ Ended) =>
    /\ RuntimeErrorReturned
    /\ out = <<>>
    /\ err = <<Message("Operands must be two numbers or two strings."),
               ErrLine("[line %d] in script", <<1>>, <<>>, "", "")>>

\* The functions a compilation produced: fn and, through the constants of
\* their chunks, the functions declared in them.
RECURSIVE FunctionsOf(_, _)
FunctionsOf(v, fn) ==
  {fn} \cup UNION {FunctionsOf(v, AS_OBJ(v.objects[fn].chunk.constants[c]))
                     : c \in {c \in 1..Len(v.objects[fn].chunk.constants) :
                                isObjType(v, v.objects[fn].chunk.constants[c],
                                          "OBJ_FUNCTION")}}

\* The offset after the instruction at offset, as disassembleInstruction
\* returns it.
InstructionEnd(v, chunk, offset) ==
  CASE chunk.code[offset + 1] \in {OP_CONSTANT, OP_GET_LOCAL, OP_SET_LOCAL, OP_GET_GLOBAL,
                                   OP_DEFINE_GLOBAL, OP_SET_GLOBAL, OP_GET_UPVALUE,
                                   OP_SET_UPVALUE, OP_CALL} -> offset + 2
    [] chunk.code[offset + 1] \in {OP_JUMP, OP_JUMP_IF_FALSE, OP_LOOP} -> offset + 3
    [] chunk.code[offset + 1] = OP_CLOSURE ->
         offset + 2
           + 2 * v.objects[AS_OBJ(chunk.constants[chunk.code[offset + 2] + 1])].upvalueCount
    [] OTHER -> offset + 1

\* The offset the jump instruction at offset jumps to (jumpInstruction).
JumpTarget(chunk, offset) ==
  offset + 3 + (IF chunk.code[offset + 1] = OP_LOOP THEN -1 ELSE 1)
                 * (chunk.code[offset + 2] * 256 + chunk.code[offset + 3])

\* The offsets of the instructions of the chunk from offset on.
RECURSIVE Instructions(_, _, _)
Instructions(v, chunk, offset) ==
  IF offset >= Len(chunk.code) THEN {}
  ELSE {offset} \cup Instructions(v, chunk, InstructionEnd(v, chunk, offset))

JumpsInside(v, chunk) ==
  \A offset \in Instructions(v, chunk, 0) :
    chunk.code[offset + 1] \in {OP_JUMP, OP_JUMP_IF_FALSE, OP_LOOP} =>
      JumpTarget(chunk, offset) \in 0..Len(chunk.code) - 1

\* C3: in every chunk of a compilation that reported no error, every
\* OP_JUMP, OP_JUMP_IF_FALSE and OP_LOOP jumps to an offset inside the chunk.
C3_JumpsLandInsideChunk ==
  pc = "run" =>
    \A fn \in FunctionsOf(vm, vm.objects[vm.frames[1].closure].function) :
      JumpsInside(vm, vm.objects[fn].chunk)

\* The string objects of the VM v.
StringObjects(v) == {o \in 1..Len(v.objects) : v.objects[o].type = "OBJ_STRING"}

\* The step raises the runtime error message and ends the call.
Raises(message) ==
  /\ pc' = "idle"
  /\ result' = "INTERPRET_RUNTIME_ERROR"
  /\ Len(err') > Len(err)
  /\ err'[Len(err) + 1] = message

\* Every name is bound in vm.globals after the step as it was before.
GlobalsKept ==
  \A name \in StringObjects(vm) :
    tableGet(vm'.objects, vm'.globals, name) = tableGet(vm.objects, vm.globals, name)

\* C6: OP_SET_GLOBAL and OP_GET_GLOBAL on a name that is not defined raise
\* Undefined variable with the name and leave every global, that name
\* among them, as it was: the name is still undefined for whatever runs
\* later on the VM.
C6_AssignUndefinedLeavesUndefined ==
  [][((Executing(OP_SET_GLOBAL) \/ Executing(OP_GET_GLOBAL))
        /\ ~tableGet(vm.objects, vm.globals, READ_STRING).found) =>
       /\ Raises(ErrLine("Undefined variable '%s'.", <<>>, vm.objects[READ_STRING].chars,
                         "", ""))
       /\ GlobalsKept]_vars

\* C6 happens: x was assigned while undefined in one call, and the next
\* call printed the global a and found x undefined.
C6_Witness ==
  /\ hist.programs = <<AssignUndefinedProgram, ReadGlobalsProgram>>
  /\ RuntimeErrorReturned
  /\ out = <<<<"1">>>>
  /\ err[1] = ErrLine("Undefined variable '%s'.", <<>>, <<"x">>, "", "")

\* C7: the instruction that writes a runtime error ends the call with
\* INTERPRET_RUNTIME_ERROR; the call returns with an empty stack and no
\* frame, no instruction runs until the next call, and that call starts
\* from an empty stack with no frame.
C7_RuntimeErrorResetsStack ==
  [][/\ (pc = "run" /\ err' # err) => (pc' = "idle" /\ result' = "INTERPRET_RUNTIME_ERROR")
     /\ (pc = "run" /\ pc' = "idle" /\ result' = "INTERPRET_RUNTIME_ERROR") =>
          (vm'.stackTop = 0 /\ vm'.frameCount = 0 /\ hist'.executed = hist.executed + 1)
     /\ (RuntimeErrorReturned /\ pc' = "idle") => hist'.executed = hist.executed
     /\ (RuntimeErrorReturned /\ pc' # "idle") =>
          (pc' = "compile" /\ vm'.stackTop = 0 /\ vm'.frameCount = 0)]_vars

\* C7 happens: a runtime error was raised two calls deep, with values on
\* the stack below it.
C7_Witness ==
  /\ RuntimeErrorReturned
  /\ Len(err) >= 3
  /\ Len(vm.stack) >= 3
  /\ vm.stackTop = 0
  /\ vm.frameCount = 0

\* C8: while compile runs hadError stays set once it is set, and is set
\* exactly when an error was reported; compile returns a function exactly
\* when it is not set, and otherwise interpret returns
\* INTERPRET_COMPILE_ERROR having run no instruction.
C8_HadErrorDecidesCompile ==
  [][pc = "compile" =>
       /\ (parser.hadError /\ pc' = "compile") => parser'.hadError
       /\ parser'.hadError <=> err' # <<>>
       /\ pc' # "compile" =>
            IF parser'.hadError
              THEN /\ pc' = "idle"
                   /\ result' = "INTERPRET_COMPILE_ERROR"
                   /\ hist'.executed = 0
                   /\ vm'.frameCount = vm.frameCount
                   /\ vm'.stackTop = vm.stackTop
            ELSE pc' = "run" /\ vm'.frameCount = vm.frameCount + 1]_vars

\* C8 happens: an error was reported, synchronize cleared panic mode, the
\* declarations after it were compiled to the end of the source, and
\* interpret returned INTERPRET_COMPILE_ERROR.
C8_Witness ==
  /\ Interpreting(SyntaxErrorProgram)
  /\ pc = "idle"
  /\ result = "INTERPRET_COMPILE_ERROR"
  /\ parser.hadError
  /\ ~parser.panicMode
  /\ parser.previous.type = TOKEN_EOF
  /\ Len(err) = 1
  /\ hist.executed = 0

\* OP_CALL is about to call a closure.
CallsClosure == Executing(OP_CALL) /\ isObjType(vm, peekValue(vm, Operand(1)), "OBJ_CLOSURE")
Callee == AS_OBJ(peekValue(vm, Operand(1)))
CalleeArity == vm.objects[vm.objects[Callee].function].arity

\* The step writes no frame, the caller having read the instruction and
\* its operand, and runs nothing of the callee.
NoFramePushed == vm'.frames = Skip(vm, 2).frames /\ vm'.frameCount = 0 /\ pc' = "idle"

\* The step pushes one frame for the callee over its arguments.
FramePushed ==
  /\ vm'.frameCount = vm.frameCount + 1
  /\ pc' = "run"
  /\ vm'.stack = vm.stack
  /\ vm'.stackTop = vm.stackTop
  /\ \A i \in 1..vm.frameCount - 1 : vm'.frames[i] = vm.frames[i]
  /\ vm'.frames[vm.frameCount] = [Frame(vm) EXCEPT !.ip = @ + 2]
  /\ Frame(vm').closure = Callee
  /\ Frame(vm').ip = 0
  /\ Frame(vm').slots + 1 + CalleeArity = vm.stackTop
  /\ vm'.stack[Frame(vm').slots + 1] = OBJ_VAL(Callee)

\* C9 as it is stated: OP_CALL on a closure raises Expected N arguments but
\* got M when the counts differ, and pushes the frame whenever they agree.
C9_EqualArityAlwaysPushesFrame ==
  [][CallsClosure =>
       IF Operand(1) # CalleeArity
         THEN /\ Raises(ErrLine("Expected %d arguments but got %d.",
                                <<CalleeArity, Operand(1)>>, <<>>, "", ""))
              /\ NoFramePushed
       ELSE FramePushed]_vars

\* C9: OP_CALL on a closure raises Expected N arguments but got M when the
\* counts differ, writing no frame; when they agree it raises Stack
\* overflow if FRAMES_MAX frames are active, and otherwise pushes one frame
\* with the callee in slot 0, the arguments above it and ip at the start of
\* the callee's chunk.
C9_ArityCheckedThenFramePushed ==
  [][CallsClosure =>
       IF Operand(1) # CalleeArity
         THEN /\ Raises(ErrLine("Expected %d arguments but got %d.",
                                <<CalleeArity, Operand(1)>>, <<>>, "", ""))
              /\ NoFramePushed
       ELSE IF vm.frameCount = FRAMES_MAX
         THEN Raises(Message("Stack overflow.")) /\ NoFramePushed
       ELSE FramePushed]_vars

\* C9 happens: a call with two arguments ran the function of two
\* parameters, and the call with one argument raised the error.
C9_Witness ==
  /\ Interpreting(ArityProgram)
  /\ RuntimeErrorReturned
  /\ out = <<<<"1">>, <<"2">>>>
  /\ err[1] = ErrLine("Expected %d arguments but got %d.", <<2, 1>>, <<>>, "", "")

\* C10: frameCount stays within 0..FRAMES_MAX and no frame is written
\* beyond frames[FRAMES_MAX - 1]; the program that recurses without end
\* returns INTERPRET_RUNTIME_ERROR with Stack overflow.
C10_FramesWithinBounds ==
  /\ vm.frameCount \in 0..FRAMES_MAX
  /\ Len(vm.frames) <= FRAMES_MAX
  /\ (Interpreting(RecursionProgram) /\ Ended) =>
       (RuntimeErrorReturned /\ err[1] = Message("Stack overflow."))

\* C10 happens: the call made with FRAMES_MAX frames active raised Stack
\* overflow, every frame of the array having been written.
C10_Witness ==
  /\ Interpreting(RecursionProgram)
  /\ RuntimeErrorReturned
  /\ err[1] = Message("Stack overflow.")
  /\ Len(err) = FRAMES_MAX + 1
  /\ Len(vm.frames) = FRAMES_MAX

(***************************************************************************)
(* The table on its own: tableSet, tableDelete and tableGet are called on  *)
(* one table in any order, with keys that are strings interned in the VM.  *)
(* shadow is the map the calls describe: shadow[k] is <<>> while k is      *)
(* absent and <<v>> while k is bound to v.  ret is what the last call      *)
(* did: the function, its key and what it returned.                        *)
(***************************************************************************)
\* The keys: a, q and i have the same hash modulo 8, a and q also modulo
\* 16, and the home bucket of b follows theirs.
KeyChars == <<<<"a">>, <<"q">>, <<"i">>, <<"b">>, <<"c">>, <<"d">>, <<"e">>>>

RECURSIVE InternKeys(_, _)
InternKeys(v, n) ==
  IF n = 0 THEN v ELSE copyString(InternKeys(v, n - 1), KeyChars[n]).vm

TableVM == InternKeys(initVM, Len(KeyChars))

Key(n) == copyString(TableVM, KeyChars[n]).string
Keys == {Key(n) : n \in 1..Len(KeyChars)}

\* The values stored: the two that mark an empty bucket and a tombstone.
TableValues == {NIL_VAL, BOOL_VAL(TRUE)}

\* The calls made: every key is set and looked up, the first Rebound keys
\* with either value and the others with one, and the first Deleted keys
\* are deleted.
Rebound == 2
Deleted == 4
SetCalls ==
  {<<Key(n), value>> : n \in 1..Rebound, value \in TableValues}
    \cup {<<Key(n), BOOL_VAL(TRUE)>> : n \in Rebound + 1..Len(KeyChars)}
DeleteCalls == {Key(n) : n \in 1..Deleted}

InitTable ==
  /\ vm = TableVM
  /\ source = <<>>
  /\ scanner = [start |-> 0, current |-> 0, line |-> 0]
  /\ parser = [current |-> ZeroToken, previous |-> ZeroToken,
               hadError |-> FALSE, panicMode |-> FALSE]
  /\ current = <<>>
  /\ control = <<>>
  /\ out = <<>>
  /\ err = <<>>
  /\ pc = "idle"
  /\ result = "NONE"
  /\ calls = 0
  /\ hist = [executed |-> 0, programs |-> <<>>]
  /\ table = initTable
  /\ shadow = [k \in Keys |-> <<>>]
  /\ ret = [op |-> "initTable", key |-> NULL, returned |-> FALSE, value |-> NIL_VAL,
            grown |-> FALSE]

TableSet(key, value) ==
  /\ \E set \in {tableSet(vm.objects, table, key, value)} :
       /\ table' = set.table
       /\ ret' = [op |-> "tableSet", key |-> key, returned |-> set.isNewKey, value |-> value,
                  grown |-> set.table.capacity # table.capacity]
  /\ shadow' = [shadow EXCEPT ![key] = <<value>>]
  /\ UNCHANGED <<vm, source, scanner, parser, current, control, out, err, pc, result,
                 calls, hist>>

TableDelete(key) ==
  /\ \E del \in {tableDelete(vm.objects, table, key)} :
       /\ table' = del.table
       /\ ret' = [op |-> "tableDelete", key |-> key, returned |-> del.deleted,
                  value |-> NIL_VAL, grown |-> FALSE]
  /\ shadow' = [shadow EXCEPT ![key] = <<>>]
  /\ UNCHANGED <<vm, source, scanner, parser, current, control, out, err, pc, result,
                 calls, hist>>

\* value is the out-parameter of tableGet, written when it returns true.
TableGet(key) ==
  /\ \E got \in {tableGet(vm.objects, table, key)} :
       ret' = [op |-> "tableGet", key |-> key, returned |-> got.found, value |-> got.value,
               grown |-> FALSE]
  /\ UNCHANGED <<vm, source, scanner, parser, current, control, out, err, pc, result,
                 calls, hist, table, shadow>>

NextTable ==
  \/ \E set \in SetCalls : TableSet(set[1], set[2])
  \/ \E key \in DeleteCalls : TableDelete(key)
  \/ \E key \in Keys : TableGet(key)

SpecTable == InitTable /\ [][NextTable]_vars

\* A tombstone lies in the home bucket of the key.
HomeIsTombstone(t, key) ==
  /\ t.entries[HashMod(vm.objects[key].hash, t.capacity) + 1].key = NULL
  /\ ~IS_NIL(t.entries[HashMod(vm.objects[key].hash, t.capacity) + 1].value)

\* C4: every call answers as the map does: tableSet returns true exactly
\* when the key was absent, tableDelete exactly when it was present, and
\* tableGet finds exactly the present keys, with the value of the last
\* tableSet.
C4_TableBehavesAsMap ==
  [][/\ ret'.op = "tableSet" => ret'.returned = (shadow[ret'.key] = <<>>)
     /\ ret'.op = "tableDelete" => ret'.returned = (shadow[ret'.key] # <<>>)
     /\ ret'.op = "tableGet" =>
          /\ ret'.returned = (shadow[ret'.key] # <<>>)
          /\ ret'.returned => ret'.value = shadow[ret'.key][1]]_vars

\* C4 happens: after the table has grown twice, tableGet found a key
\* behind a tombstone that lies in the key's home bucket.
C4_Witness ==
  /\ ret.op = "tableGet"
  /\ ret.returned
  /\ table.capacity = 16
  /\ HomeIsTombstone(table, ret.key)

\* The buckets of t that hold a key, and those that hold a tombstone.
LiveEntries(t) == {i \in 1..Len(t.entries) : t.entries[i].key # NULL}
Tombstones(t) ==
  {i \in 1..Len(t.entries) : t.entries[i].key = NULL /\ ~IS_NIL(t.entries[i].value)}

\* count is the number of entries and tombstones of t.
CountsEntriesAndTombstones(t) ==
  t.count = Cardinality(LiveEntries(t)) + Cardinality(Tombstones(t))

\* C15: count is the number of live entries plus the number of tombstones
\* after every call; tableDelete leaves count as it is; tableSet adds one
\* to it only when it fills an empty bucket, not when it overwrites a key
\* or takes a tombstone; after a resize the table has no tombstone and
\* count is the number of live entries.
C15_CountIsLivePlusTombstones ==
  [][/\ CountsEntriesAndTombstones(table')
     /\ ret'.op = "tableDelete" => table'.count = table.count
     /\ (ret'.op = "tableSet" /\ ~ret'.grown) =>
          table'.count =
            IF shadow[ret'.key] # <<>>
                 \/ Cardinality(Tombstones(table')) < Cardinality(Tombstones(table))
              THEN table.count
            ELSE table.count + 1
     /\ (ret'.op = "tableSet" /\ ret'.grown) =>
          /\ Tombstones(table') = {}
          /\ table'.count = Cardinality(LiveEntries(table'))
          /\ table'.count = Cardinality({k \in Keys : shadow'[k] # <<>>})]_vars

\* C15 happens: tableSet has stored a key that was absent, without a
\* resize, in a table of capacity 16 that holds tombstones, which count
\* counts.
C15_Witness ==
  /\ ret.op = "tableSet"
  /\ ret.returned
  /\ ~ret.grown
  /\ Tombstones(table) # {}
  /\ table.count = Cardinality(LiveEntries(table)) + Cardinality(Tombstones(table))
  /\ table.count > Cardinality(LiveEntries(table)) + 1
  /\ table.capacity = 16

\* The buckets of t that hold neither a key nor a tombstone.
EmptyEntries(t) ==
  {i \in 1..Len(t.entries) : t.entries[i].key = NULL /\ IS_NIL(t.entries[i].value)}

\* A probe of t that starts at bucket index reaches an empty bucket before
\* it has visited every bucket.
ProbeEnds(t, index) ==
  \E steps \in 0..(t.capacity - 1) : ((index + steps) % t.capacity) + 1 \in EmptyEntries(t)

\* The table has an empty bucket, count is at most 75% of capacity and
\* counts the buckets that are not empty, and every probe ends.
HasEmptyBucket(t) ==
  t.capacity > 0 =>
    /\ EmptyEntries(t) # {}
    /\ 4 * t.count <= 3 * t.capacity
    /\ t.count = t.capacity - Cardinality(EmptyEntries(t))
    /\ \A index \in 0..(t.capacity - 1) : ProbeEnds(t, index)

\* C36: after any calls of tableSet and tableDelete a table with capacity
\* above 0 has an empty bucket that is no tombstone, count with its
\* tombstones being at most 75% of capacity; findEntry returns for every
\* key, absent or present, and tableFindString ends from every bucket.
C36_EmptyBucketAlways ==
  /\ HasEmptyBucket(table)
  /\ HasEmptyBucket(vm.strings)
  /\ HasEmptyBucket(vm.globals)
  /\ table.capacity > 0 =>
       \A key \in Keys : findEntry(vm.objects, table.entries, table.capacity, key) # -1

\* C36 happens: a table of capacity 8 at its highest load, tombstones among
\* its six buckets in use, has been probed for a key that is absent
C36_Witness ==
  /\ table.capacity = 8
  /\ table.count = 6
  /\ Cardinality(Tombstones(table)) >= 2
  /\ Cardinality(EmptyEntries(table)) = 2
  /\ ret.op = "tableGet"
  /\ ~ret.returned

(***************************************************************************)
(* String interning on its own: copyString and takeString are called on    *)
(* the VM in any order.  ret is what the last call was given and what it   *)
(* returned.                                                               *)
(***************************************************************************)
\* The contents asked for: clock is interned by initVM; a, q and i have
\* the same hash modulo 8; with all of them interned vm.strings has grown.
StringInputs ==
  {<<>>, <<"a">>, <<"q">>, <<"i">>, <<"a", "q">>, <<"q", "a">>,
   <<"c", "l", "o", "c", "k">>}

InitStrings ==
  /\ vm = initVM
  /\ source = <<>>
  /\ scanner = [start |-> 0, current |-> 0, line |-> 0]
  /\ parser = [current |-> ZeroToken, previous |-> ZeroToken,
               hadError |-> FALSE, panicMode |-> FALSE]
  /\ current = <<>>
  /\ control = <<>>
  /\ out = <<>>
  /\ err = <<>>
  /\ pc = "idle"
  /\ result = "NONE"
  /\ calls = 0
  /\ hist = [executed |-> 0, programs |-> <<>>]
  /\ table = initTable
  /\ shadow = <<>>
  /\ ret = [op |-> "initVM", chars |-> <<>>, string |-> NULL]

CopyString(chars) ==
  /\ \E c \in {copyString(vm, chars)} :
       /\ vm' = c.vm
       /\ ret' = [op |-> "copyString", chars |-> chars, string |-> c.string]
  /\ UNCHANGED <<source, scanner, parser, current, control, out, err, pc, result, calls,
                 hist, table, shadow>>

TakeString(chars) ==
  /\ \E c \in {takeString(vm, chars)} :
       /\ vm' = c.vm
       /\ ret' = [op |-> "takeString", chars |-> chars, string |-> c.string]
  /\ UNCHANGED <<source, scanner, parser, current, control, out, err, pc, result, calls,
                 hist, table, shadow>>

NextStrings ==
  \/ \E chars \in StringInputs : CopyString(chars)
  \/ \E chars \in StringInputs : TakeString(chars)

SpecStrings == InitStrings /\ [][NextStrings]_vars

\* Two strings of the VM v are equal values exactly when their characters
\* are equal.
Canonical(v) ==
  \A a, b \in StringObjects(v) :
    valuesEqual(OBJ_VAL(a), OBJ_VAL(b)) <=> v.objects[a].chars = v.objects[b].chars

\* A string with these characters is among the objects of the VM v.
Interned(v, chars) == \E o \in StringObjects(v) : v.objects[o].chars = chars

\* The keys of the table t.
KeysOf(t) == {t.entries[i].key : i \in 1..Len(t.entries)} \ {NULL}

\* C5: after every copyString and takeString no two strings of the VM have
\* the same characters, every string is a key of vm.strings, and the call
\* returns a string with the characters asked for; when they were interned
\* already the VM is left as it was.
C5_StringsAreCanonical ==
  [][/\ Canonical(vm')
     /\ KeysOf(vm'.strings) = StringObjects(vm')
     /\ ret'.string \in StringObjects(vm')
     /\ vm'.objects[ret'.string].chars = ret'.chars
     /\ Interned(vm, ret'.chars) => vm' = vm]_vars

\* C5 happens: with vm.strings grown, a call asked for characters already
\* interned, whose bucket comes after that of another string with the same
\* hash modulo the capacity, and got the existing string.
C5_Witness ==
  /\ vm.strings.capacity = 16
  /\ ret.op = "takeString"
  /\ ret.string < Len(vm.objects)
  /\ vm.objects[ret.string].chars = ret.chars
  /\ vm.strings.entries[HashMod(vm.objects[ret.string].hash, 16) + 1].key # ret.string

(***************************************************************************)
(* Calls and returns.                                                      *)
(***************************************************************************)
\* OP_RETURN is about to return from a function that OP_CALL called.
ReturnsToCaller == Executing(OP_RETURN) /\ vm.frameCount > 1

\* The index in vm.stack of the slot of the callee of the top frame.
CalleeSlot == Frame(vm).slots

\* The step leaves the stack one higher than it was before the callee was
\* pushed, with the returned value in the slot of the callee, and goes on
\* in the caller after its OP_CALL.
ReturnEffect ==
  /\ pc' = "run"
  /\ vm'.frameCount = vm.frameCount - 1
  /\ vm'.stackTop = CalleeSlot + 1
  /\ vm'.stackTop = Len(Last(hist.made)) + 1
  /\ vm'.stack[CalleeSlot + 1] = peekValue(vm, 0)
  /\ \A i \in 1..vm.frameCount - 1 : vm'.frames[i] = vm.frames[i]
  /\ Frame(vm').ip >= 2
  /\ Chunk(vm').code[Frame(vm').ip - 1] = OP_CALL

\* C11 as it is stated: when a called function returns, the stack is cut
\* to the slot of the callee, which receives the returned value, and every
\* slot below it holds the value it held when the call was made.
C11_ReturnKeepsSlotsSinceCall ==
  [][ReturnsToCaller =>
       /\ ReturnEffect
       /\ \A i \in 1..CalleeSlot : vm'.stack[i] = Last(hist.made)[i]]_vars

\* C11: when a called function returns, the stack is cut to the slot of
\* the callee, which receives the returned value, frameCount is one less,
\* the caller goes on after its OP_CALL, and every slot below the slot of
\* the callee holds the value it held before the return; while a called
\* function runs, a slot below the slot of its callee is changed by
\* OP_SET_UPVALUE only.
C11_ReturnTruncatesToCalleeSlot ==
  [][/\ ReturnsToCaller =>
          /\ ReturnEffect
          /\ \A i \in 1..CalleeSlot : vm'.stack[i] = vm.stack[i]
     /\ (InChunk /\ vm.frameCount > 1 /\ ~Executing(OP_SET_UPVALUE)) =>
          \A i \in 1..CalleeSlot : vm'.stack[i] = vm.stack[i]]_vars

\* C11 happens: a call made two frames deep, with a local of the caller
\* below the callee, has returned a value to its caller, and the caller
\* has printed both.
C11_Witness ==
  /\ Interpreting(NestedUpvalueProgram)
  /\ pc = "idle"
  /\ result = "INTERPRET_OK"
  /\ out = <<<<"2">>, <<"2">>>>

(***************************************************************************)
(* Lines of tokens.                                                        *)
(***************************************************************************)
\* The number of newline characters among the first n characters of s.
RECURSIVE NewlinesIn(_, _)
NewlinesIn(s, n) ==
  IF n = 0 THEN 0 ELSE NewlinesIn(s, n - 1) + (IF s[n] = "\n" THEN 1 ELSE 0)

\* C12: the token scanToken returned last carries the line it ends on, 1
\* plus the number of newlines of the source up to its end; a string
\* literal raises the line by the newlines in it and by nothing else.
C12_TokenLineCountsNewlines ==
  pc = "compile" => parser.current.line = 1 + NewlinesIn(source, scanner.current)

(***************************************************************************)
(* Upvalues and closures.                                                  *)
(***************************************************************************)
\* The upvalue objects of the VM v.  No upvalue is ever closed: each one
\* refers to a slot of the stack.
UpvalueObjects(v) == {o \in 1..Len(v.objects) : v.objects[o].type = "OBJ_UPVALUE"}

\* The list that starts at the upvalue u and follows next.
RECURSIVE UpvalueList(_, _)
UpvalueList(v, u) ==
  IF u = NULL THEN <<>> ELSE <<u>> \o UpvalueList(v, v.objects[u].next)

\* C13: every upvalue OP_CLOSURE created is in the list vm.openUpvalues,
\* and the list is sorted by the stack slot of its upvalues.
C13_OpenUpvaluesLinkedAndSorted ==
  /\ \A o \in UpvalueObjects(vm) :
       \E i \in 1..Len(UpvalueList(vm, vm.openUpvalues)) :
         UpvalueList(vm, vm.openUpvalues)[i] = o
  /\ \A i, j \in 1..Len(UpvalueList(vm, vm.openUpvalues)) :
       i < j => vm.objects[UpvalueList(vm, vm.openUpvalues)[i]].location
                  >= vm.objects[UpvalueList(vm, vm.openUpvalues)[j]].location

\* function() is about to finish the function of the innermost compiler:
\* endCompiler and the emission of OP_CLOSURE are the next step.
FinishesFunction ==
  /\ pc = "compile"
  /\ control # <<>>
  /\ Last(control).fn = "function"
  /\ Last(control).at = "end"

Finished == current[Len(current)].function
EnclosingCode == vm.objects[current[Len(current) - 1].function].chunk.code
EnclosingChunkAfter == vm'.objects[current[Len(current) - 1].function].chunk

\* The step appends OP_CLOSURE with the constant of the finished function
\* and one (isLocal, index) pair for each of its upvalues.
ClosureEmitted ==
  /\ Len(EnclosingChunkAfter.code)
       = Len(EnclosingCode) + 2 + 2 * vm'.objects[Finished].upvalueCount
  /\ SubSeq(EnclosingChunkAfter.code, 1, Len(EnclosingCode)) = EnclosingCode
  /\ EnclosingChunkAfter.code[Len(EnclosingCode) + 1] = OP_CLOSURE
  /\ EnclosingChunkAfter.constants[EnclosingChunkAfter.code[Len(EnclosingCode) + 2] + 1]
       = OBJ_VAL(Finished)
  /\ \A i \in 1..vm'.objects[Finished].upvalueCount :
       EnclosingChunkAfter.code[Len(EnclosingCode) + 1 + 2 * i] \in {0, 1}

\* The closure OP_CLOSURE has pushed.
NewClosure == vm'.objects[AS_OBJ(peekValue(vm', 0))]

\* The step reads the pairs of the function's upvalues, sets every upvalue
\* of the new closure, and leaves ip at the start of an instruction.
ClosureLoaded ==
  /\ pc' = "run"
  /\ isObjType(vm', peekValue(vm', 0), "OBJ_CLOSURE")
  /\ NewClosure.function = AS_OBJ(READ_CONSTANT)
  /\ Len(NewClosure.upvalues) = vm.objects[AS_OBJ(READ_CONSTANT)].upvalueCount
  /\ \A i \in 1..Len(NewClosure.upvalues) :
       /\ NewClosure.upvalues[i] # NULL
       /\ vm'.objects[NewClosure.upvalues[i]].type = "OBJ_UPVALUE"
  /\ Frame(vm').ip = Frame(vm).ip + 2 + 2 * vm.objects[AS_OBJ(READ_CONSTANT)].upvalueCount
  /\ Frame(vm').ip \in Instructions(vm, Chunk(vm), 0)

\* C14: the compiler emits, after the OP_CLOSURE of each function it
\* finishes, as many (isLocal, index) pairs as the function has upvalues;
\* OP_CLOSURE reads that many pairs, sets every upvalue of the closure and
\* goes on at the opcode after the last pair.
C14_ClosurePairsMatchUpvalueCount ==
  [][/\ FinishesFunction => ClosureEmitted
     /\ Executing(OP_CLOSURE) => ClosureLoaded]_vars

\* C14 happens: a function that captures a local of its enclosing function
\* and a function that takes the upvalue of its enclosing function were
\* compiled, and their closures were created with that one upvalue.
C14_Witness ==
  /\ Interpreting(NestedUpvalueProgram)
  /\ pc = "idle"
  /\ result = "INTERPRET_OK"
  /\ \E b, c \in 1..Len(vm.objects) :
       /\ b # c
       /\ vm.objects[b].type = "OBJ_CLOSURE"
       /\ vm.objects[c].type = "OBJ_CLOSURE"
       /\ Len(vm.objects[b].upvalues) = 1
       /\ vm.objects[c].upvalues = vm.objects[b].upvalues

(***************************************************************************)
(* Panic mode.                                                             *)
(***************************************************************************)
\* declaration() is about to call synchronize().
SynchronizeRuns ==
  /\ pc = "compile"
  /\ control # <<>>
  /\ Last(control).fn = "declaration"
  /\ Last(control).at = "end"
  /\ parser.panicMode

\* The tokens synchronize stops in front of.
StatementStart ==
  {TOKEN_CLASS, TOKEN_FUN, TOKEN_VAR, TOKEN_FOR, TOKEN_IF, TOKEN_WHILE, TOKEN_PRINT,
   TOKEN_RETURN}

FirstCallOf(src) == calls = 1 /\ Interpreting(src)

\* The call has returned INTERPRET_OK having printed lines.
ReturnedOk(lines) == pc = "idle" /\ result = "INTERPRET_OK" /\ out = lines /\ err = <<>>

\* C17: the fib program prints 55 on a fresh VM and returns INTERPRET_OK;
\* at each return of fib the slots below the callee, the locals of the
\* caller and its pending left operand among them, hold what they held
\* when the call was made, and n is read from the slot above the callee.
C17_FibPrintsFiftyFive ==
  [][FirstCallOf(FibProgram) =>
       /\ Ended' => ReturnedOk(<<<<"5", "5">>>>)'
       /\ ReturnsToCaller =>
            \A i \in 1..CalleeSlot : vm'.stack[i] = Last(hist.made)[i]
       /\ (Executing(OP_GET_LOCAL) /\ vm.frameCount > 1) =>
            /\ Operand(1) = 1
            /\ peekValue(vm', 0) = vm.stack[CalleeSlot + 2]]_vars

\* C17 happens: fib(10) has run through its 177 invocations and printed.
C17_Witness ==
  /\ FirstCallOf(FibProgram)
  /\ ReturnedOk(<<<<"5", "5">>>>)
  /\ hist.executed > 177 * 8

\* The global named by chars is bound to value in v.globals.
GlobalIs(v, chars, value) ==
  \E name \in StringObjects(v) :
    /\ v.objects[name].chars = chars
    /\ tableGet(v.objects, v.globals, name) = [found |-> TRUE, value |-> value]

\* C18: a variable declared in a block shadows the global or the outer
\* local of its name inside the block only.  The global x of the shadowing
\* program is 1 from its definition on while the block prints 2 and the
\* statement after the block prints 1; in the nested program the
\* assignment in the inner block goes to the inner x (3 is printed) and the
\* outer x still is 1 after the block (1 + 4 = 5 is printed).  No
\* instruction of the shadowing program writes a global after the first.
C18_BlockShadowsInsideOnly ==
  [][/\ (FirstCallOf(ShadowProgram) /\ Ended') =>
          /\ ReturnedOk(<<<<"2">>, <<"1">>>>)'
          /\ GlobalIs(vm', <<"x">>, NUMBER_VAL(1, 1))
     /\ (FirstCallOf(ShadowProgram) /\ pc = "run" /\ GlobalIs(vm, <<"x">>, NUMBER_VAL(1, 1))) =>
          /\ GlobalIs(vm', <<"x">>, NUMBER_VAL(1, 1))
          /\ Executing(OP_GET_LOCAL) => peekValue(vm', 0) = NUMBER_VAL(2, 1)
          /\ Executing(OP_GET_GLOBAL) => peekValue(vm', 0) = NUMBER_VAL(1, 1)
     /\ (FirstCallOf(NestedShadowProgram) /\ Ended') =>
          ReturnedOk(<<<<"3">>, <<"5">>>>)']_vars

\* C18 happens: the shadowing program has printed from inside and from
\* after its block.
C18_Witness ==
  /\ FirstCallOf(ShadowProgram)
  /\ ReturnedOk(<<<<"2">>, <<"1">>>>)
  /\ GlobalIs(vm, <<"x">>, NUMBER_VAL(1, 1))


(***************************************************************************)
(* Globals.                                                                *)
(***************************************************************************)
\* The step binds name to value in vm.globals and keeps every other name.
GlobalWritten(name, value) ==
  /\ tableGet(vm'.objects, vm'.globals, name) = [found |-> TRUE, value |-> value]
  /\ \A other \in StringObjects(vm) \ {name} :
       tableGet(vm'.objects, vm'.globals, other) = tableGet(vm.objects, vm.globals, other)

\* The step is a write of a global: a definition, or an assignment to a
\* defined name.
WritesGlobal ==
  \/ Executing(OP_DEFINE_GLOBAL)
  \/ Executing(OP_SET_GLOBAL) /\ tableGet(vm.objects, vm.globals, READ_STRING).found

\* C20: OP_DEFINE_GLOBAL binds the name to the value on the stack whether
\* or not the name is defined, and raises no error; an assignment to a
\* defined name does the same; a read of a defined name pushes the value
\* the name is bound to; and no other step, the start of a later call and
\* the end of a call by a runtime error among them, changes what a name is
\* bound to.
C20_GlobalsKeepLatestWrite ==
  [][/\ WritesGlobal =>
          /\ GlobalWritten(READ_STRING, peekValue(vm, 0))
          /\ pc' = "run" /\ err' = err
     /\ (Executing(OP_GET_GLOBAL) /\ tableGet(vm.objects, vm.globals, READ_STRING).found) =>
          /\ peekValue(vm', 0) = tableGet(vm.objects, vm.globals, READ_STRING).value
          /\ pc' = "run" /\ err' = err
     /\ ~WritesGlobal => GlobalsKept]_vars

\* C20 happens: a was defined twice and assigned in a call that ended with
\* a runtime error, and the next call on the VM has printed the 3 assigned.
C20_Witness ==
  /\ hist.programs = <<RedefineProgram, ReadGlobalsProgram>>
  /\ pc = "idle" /\ result = "INTERPRET_RUNTIME_ERROR"
  /\ out = <<<<"3">>>>
  /\ GlobalIs(vm, <<"a">>, NUMBER_VAL(3, 1))

(***************************************************************************)
(* Arithmetic expressions.  SpecExpr interprets, on a fresh VM, one        *)
(* program `print e;` where e is any expression of at most MaxOperands     *)
(* number literals joined by + - * / and grouped by parentheses in every   *)
(* way.  The value the usual grammar gives e is computed by a recursive    *)
(* descent over the source text,                                           *)
(*     expr := term, then any number of: + or -, term                      *)
(*     term := primary, then any number of: star or /, primary             *)
(*     primary := NUMBER, or expr in parentheses                           *)
(* with the arithmetic of the VM on the operands.                          *)
(***************************************************************************)
MaxOperands == 3

Literals == {<<"2">>, <<"3">>}

Operators == {"+", "-", "*", "/"}

Parenthesized(es) == {<<"(">> \o e \o <<")">> : e \in es}

Joined(ls, rs) == {l \o <<op>> \o r : l \in ls, op \in Operators, r \in rs}

RECURSIVE Expressions(_)
\* The expressions of n literals: a literal, or two operands joined by an
\* operator, an operand of several literals being with or without
\* parentheses around it.
Expressions(n) ==
  IF n = 1 THEN Literals
  ELSE LET Side(k) == IF k = 1 THEN Literals
                         ELSE Expressions(k) \cup Parenthesized(Expressions(k))
       IN  UNION {Joined(Side(k), Side(n - k)) : k \in 1..(n - 1)}

PrintKeyword == <<"p", "r", "i", "n", "t", " ">>

\* print 1 + 2 * 3;
PrecedenceProgram == PrintKeyword \o <<"1", " ", "+", " ", "2", " ", "*", " ", "3", ";">>

\* print 8 - 3 - 2;
AssociativityProgram == PrintKeyword \o <<"8", " ", "-", " ", "3", " ", "-", " ", "2", ";">>

ExpressionPrograms ==
  {PrintKeyword \o e \o <<";">> : e \in UNION {Expressions(n) : n \in 1..MaxOperands}}
    \cup {PrecedenceProgram, AssociativityProgram}

DigitValue(c) ==
  CASE c = "0" -> 0 [] c = "1" -> 1 [] c = "2" -> 2 [] c = "3" -> 3 [] c = "4" -> 4
    [] c = "5" -> 5 [] c = "6" -> 6 [] c = "7" -> 7 [] c = "8" -> 8 [] c = "9" -> 9

IsDigitChar(c) == c \in {"0", "1", "2", "3", "4", "5", "6", "7", "8", "9"}

RECURSIVE SkipSpaces(_, _)
SkipSpaces(s, i) == IF s[i] = " " THEN SkipSpaces(s, i + 1) ELSE i

RECURSIVE GrammarDigits(_, _, _)
GrammarDigits(s, i, n) ==
  IF IsDigitChar(s[i]) THEN GrammarDigits(s, i + 1, 10 * n + DigitValue(s[i]))
  ELSE [v |-> NUMBER_VAL(n, 1), i |-> i]

RECURSIVE GrammarExpr(_, _)
RECURSIVE GrammarTerm(_, _)
RECURSIVE GrammarExprRest(_, _, _)
RECURSIVE GrammarTermRest(_, _, _)
RECURSIVE GrammarPrimary(_, _)

\* Each operator gives the value and the index of the first character
\* after what it has read of s from index i on.
GrammarPrimary(s, i) ==
  LET j == SkipSpaces(s, i)
  IN  IF s[j] = "("
        THEN LET e == GrammarExpr(s, j + 1)
             IN  [v |-> e.v, i |-> SkipSpaces(s, e.i) + 1]
      ELSE GrammarDigits(s, j, 0)

GrammarTermRest(s, left, i) ==
  LET j == SkipSpaces(s, i)
  IN  IF s[j] \in {"*", "/"}
        THEN LET r == GrammarPrimary(s, j + 1)
             IN  GrammarTermRest(s, IF s[j] = "*" THEN NumMul(left, r.v)
                                    ELSE NumDiv(left, r.v), r.i)
      ELSE [v |-> left, i |-> j]

GrammarTerm(s, i) ==
  LET p == GrammarPrimary(s, i) IN GrammarTermRest(s, p.v, p.i)

GrammarExprRest(s, left, i) ==
  LET j == SkipSpaces(s, i)
  IN  IF s[j] \in {"+", "-"}
        THEN LET r == GrammarTerm(s, j + 1)
             IN  GrammarExprRest(s, IF s[j] = "+" THEN NumAdd(left, r.v)
                                    ELSE NumSub(left, r.v), r.i)
      ELSE [v |-> left, i |-> j]

GrammarExpr(s, i) ==
  LET t == GrammarTerm(s, i) IN GrammarExprRest(s, t.v, t.i)

\* The value of the expression of the program `print e;`.
GrammarValue(program) == GrammarExpr(program, Len(PrintKeyword) + 1).v

NextExpr ==
  \/ \E src \in ExpressionPrograms : calls = 0 /\ Interpret(src)
  \/ Declaration
  \/ CompileStep
  \/ CompileReturn
  \/ OpConstant
  \/ OpAdd
  \/ OpSubtract
  \/ OpMultiply
  \/ OpDivide
  \/ OpPrint
  \/ OpNil
  \/ OpReturn

SpecExpr == Init /\ [][NextExpr]_vars

\* C19: the value OP_PRINT finds on the stack is the value the grammar
\* gives the expression of the program, in which * and / bind tighter than
\* + and - and operators of equal precedence associate to the left; the
\* programs compile without error and run to INTERPRET_OK, and
\* `print 1 + 2 * 3;` prints 7 and `print 8 - 3 - 2;` prints 3.
C19_ValueOfTheGrammar ==
  calls = 1 =>
    /\ (pc = "run" /\ Executing(OP_PRINT)) => peekValue(vm, 0) = GrammarValue(source)
    /\ Ended => /\ result = "INTERPRET_OK" /\ err = <<>>
                /\ out = <<printValue(vm, GrammarValue(source))>>
    /\ (Ended /\ source = PrecedenceProgram) => out = <<<<"7">>>>
    /\ (Ended /\ source = AssociativityProgram) => out = <<<<"3">>>>

\* C19 happens: 3-2-2 has printed -1, where 3-(2-2) is 3.
C19_Witness ==
  /\ source = PrintKeyword \o <<"3", "-", "2", "-", "2", ";">>
  /\ Ended
  /\ out = <<<<"-", "1">>>>

(***************************************************************************)
(* The stack trace of a runtime error.                                     *)
(***************************************************************************)
\* The index in its chunk's code of the instruction frame i is executing:
\* the instruction run is at for the innermost frame, the OP_CALL it has
\* not returned from for the others.
ExecutingAt(i) ==
  IF i = vm.frameCount THEN vm.frames[i].ip + 1 ELSE vm.frames[i].ip - 1

\* The line of standard error that names frame i and the line of the
\* instruction it is executing.
FrameTrace(i) ==
  LET fn == vm.objects[vm.objects[vm.frames[i].closure].function]
  IN  [text |-> IF fn.name = NULL THEN "[line %d] in script" ELSE "[line %d] in %s()",
       n |-> <<fn.chunk.lines[ExecutingAt(i)]>>,
       s |-> IF fn.name = NULL THEN <<>> ELSE vm.objects[fn.name].chars,
       at |-> "", lexmsg |-> ""]

TraceTexts == {"[line %d] in script", "[line %d] in %s()"}

FunctionObjects(v) == {o \in 1..Len(v.objects) : v.objects[o].type = "OBJ_FUNCTION"}

ConstantOps == {OP_CONSTANT, OP_GET_GLOBAL, OP_DEFINE_GLOBAL, OP_SET_GLOBAL, OP_CLOSURE}

JumpOps == {OP_JUMP, OP_JUMP_IF_FALSE, OP_LOOP}

\* The chunk fn had before the step: the empty chunk when the step made fn.
ChunkBefore(fn) ==
  IF fn <= Len(vm.objects) THEN vm.objects[fn].chunk
  ELSE [code |-> <<>>, lines |-> <<>>, constants |-> <<>>]

\* What a step of the compiler does to the chunk that was before and is
\* after: code and lines have one length; the constants before are kept;
\* a byte of the code before is changed only as the operand of a jump; and
\* the instructions the step appended have their constant in the pool.
ChunkWritten(before, after) ==
  /\ Len(after.code) = Len(after.lines)
  /\ Len(after.code) >= Len(before.code)
  /\ SubSeq(after.constants, 1, Len(before.constants)) = before.constants
  /\ \A i \in 1..Len(before.code) :
       after.code[i] # before.code[i] =>
         \/ i >= 2 /\ before.code[i - 1] \in JumpOps
         \/ i >= 3 /\ before.code[i - 2] \in JumpOps
  /\ \A offset \in Instructions(vm', after, Len(before.code)) :
       after.code[offset + 1] \in ConstantOps =>
         /\ offset + 2 <= Len(after.code)
         /\ after.code[offset + 2] \in 0..(Len(after.constants) - 1)

\* C22: in every chunk, at every step of a compilation, code and lines
\* have the same length and the operand of each OP_CONSTANT, OP_GET_GLOBAL,
\* OP_DEFINE_GLOBAL, OP_SET_GLOBAL and OP_CLOSURE the step wrote is an index
\* into the constants of the chunk, which never shrink; so it is as well
\* when the chunk has more than 256 constants and the error is reported.
\* Outside a compilation no chunk changes.
C22_ConstantOperandsInPool ==
  [][/\ \A fn \in FunctionObjects(vm') : ChunkWritten(ChunkBefore(fn), vm'.objects[fn].chunk)
     /\ pc # "compile" /\ pc' # "compile" =>
          \A fn \in FunctionObjects(vm) : vm'.objects[fn].chunk = vm.objects[fn].chunk]_vars

\* C22 happens: the 257th and the 258th constant were reported, their
\* OP_CONSTANT has operand 0 and the chunk has 258 constants.
C22_Witness ==
  /\ FirstCallOf(ManyConstantsProgram)
  /\ pc = "idle" /\ result = "INTERPRET_COMPILE_ERROR"
  /\ Len(err) = 2
  /\ err[1].text = "Too many constants in one chunk."
  /\ \E fn \in FunctionObjects(vm) :
       /\ Len(vm.objects[fn].chunk.constants) = 258
       /\ vm.objects[fn].chunk.code[3 * 256 + 1] = OP_CONSTANT
       /\ vm.objects[fn].chunk.code[3 * 256 + 2] = 0

(***************************************************************************)
(* Truth.                                                                  *)
(***************************************************************************)
\* The value is nil or the boolean false.
NilOrFalse(value) ==
  value.type = "VAL_NIL" \/ (value.type = "VAL_BOOL" /\ value = BOOL_VAL(FALSE))

TrueLine == <<"t", "r", "u", "e">>

FalseLine == <<"f", "a", "l", "s", "e">>

\* C24: OP_NOT replaces the value on top of the stack by true when it is
\* nil or false and by false when it is anything else; OP_JUMP_IF_FALSE
\* jumps when the value on top is nil or false and goes on with the next
\* instruction when it is anything else, and leaves the stack as it was.
\* So !!x is false for nil and false and true for 0, the empty string, a
\* function, a native and true, and `and` yields its right operand for 0,
\* the empty string and a function and its left operand for nil and false.
C24_FalseyIsNilOrFalse ==
  [][/\ Executing(OP_NOT) =>
          /\ vm'.stackTop = vm.stackTop
          /\ peekValue(vm', 0) = BOOL_VAL(NilOrFalse(peekValue(vm, 0)))
          /\ SubSeq(vm'.stack, 1, vm.stackTop - 1) = SubSeq(vm.stack, 1, vm.stackTop - 1)
     /\ Executing(OP_JUMP_IF_FALSE) =>
          /\ vm'.stackTop = vm.stackTop
          /\ SubSeq(vm'.stack, 1, vm.stackTop) = SubSeq(vm.stack, 1, vm.stackTop)
          /\ Frame(vm').ip = Frame(vm).ip + 3
                               + (IF NilOrFalse(peekValue(vm, 0)) THEN READ_SHORT ELSE 0)
     /\ (FirstCallOf(FalseyProgram) /\ Ended') =>
          ReturnedOk(<<TrueLine, TrueLine, TrueLine, TrueLine, FalseLine, FalseLine, TrueLine,
                       <<"1">>, <<"2">>, <<"3">>, <<"n", "i", "l">>, FalseLine>>)']_vars

\* C24 happens: the empty string on top of the stack is tested by
\* OP_JUMP_IF_FALSE after 0, the empty string, a function, a native, nil,
\* false and true went through OP_NOT twice.
C24_Witness ==
  /\ FirstCallOf(FalseyProgram)
  /\ Executing(OP_JUMP_IF_FALSE)
  /\ IS_STRING(vm, peekValue(vm, 0))
  /\ vm.objects[AS_OBJ(peekValue(vm, 0))].chars = <<>>
  /\ out = <<TrueLine, TrueLine, TrueLine, TrueLine, FalseLine, FalseLine, TrueLine, <<"1">>>>

(***************************************************************************)
(* The end of a scope.                                                     *)
(***************************************************************************)
\* C26: each instruction endScope emits for a local of the scope, OP_POP
\* for one no closure captured and OP_CLOSE_UPVALUE for one a closure
\* captured, pops one value; so the local b declared after the block that
\* held a captured local is read from its own slot, and 2 is printed.
C26_ScopeEndPopsEveryLocal ==
  [][/\ (Executing(OP_POP) \/ Executing(OP_CLOSE_UPVALUE)) =>
          vm'.stackTop = vm.stackTop - 1
     /\ (FirstCallOf(CapturedScopeProgram) /\ Ended') => ReturnedOk(<<<<"2">>>>)']_vars

(***************************************************************************)
(* Control flow.                                                           *)
(***************************************************************************)
\* C27: of an if statement one path runs and the statement after it runs
\* next: the program of four if statements, with an else branch (truthy,
\* falsey) and without (falsey, truthy), prints 1, 4, 6, 7 and 8 and
\* returns INTERPRET_OK with the stack empty.
C27_IfRunsOnePathAndGoesOn ==
  (FirstCallOf(IfProgram) /\ Ended) =>
    /\ ReturnedOk(<<<<"1">>, <<"4">>, <<"6">>, <<"7">>, <<"8">>>>)
    /\ vm.stackTop = 0

\* What the for program prints: init 0; then cond 10, body 100, inc 1;
\* cond 11, body 100, inc 2; cond 12, which is not less than 12; then b.
ForLines ==
  <<<<"0">>, <<"1", "0">>, <<"1", "0", "0">>, <<"1">>, <<"1", "1">>, <<"1", "0", "0">>,
    <<"2">>, <<"1", "2">>, <<"9">>>>

AndOrLines ==
  <<<<"1">>, <<"2">>, <<"2">>, <<"n", "i", "l">>, <<"n", "i", "l">>, FalseLine, <<"4">>,
    <<"4">>, <<"5">>, <<"5">>>>

\* C29: `and` evaluates its right operand only when the left is truthy and
\* is the left operand otherwise; `or` evaluates its right operand only
\* when the left is falsey and is the left operand otherwise.  At every
\* step what the and-or program has printed is the beginning of
\* 1 2 2 nil nil false 4 4 5 5, and all of it at the end; and when a print
\* statement of the script prints the value of the expression, that value
\* is the only one on the stack above the script itself.
C29_AndOrShortCircuit ==
  [][FirstCallOf(AndOrProgram) =>
       /\ Len(out') <= Len(AndOrLines) /\ out' = SubSeq(AndOrLines, 1, Len(out'))
       /\ Ended' => ReturnedOk(AndOrLines)'
       /\ (Executing(OP_PRINT) /\ vm.frameCount = 1) => (vm.stackTop = 2 /\ vm'.stackTop = 1)]_vars

\* C29 happens: the four expressions of the and-or program are printed.
C29_Witness == FirstCallOf(AndOrProgram) /\ ReturnedOk(AndOrLines)

(***************************************************************************)
(* A local in its own initializer.                                         *)
(***************************************************************************)
OwnInitializer == "Can't read local variable in its own initializer."

\* C30: the three declarations of the own-initializer program that read
\* the local they declare, with no outer variable of the name, with a
\* global of the name and with an outer local of the name, are each
\* reported at the name with this message, the call returns
\* INTERPRET_COMPILE_ERROR and runs nothing; a function declared with fun
\* calls itself by its name in its body at local scope, where f(2) is 2,
\* and at global scope, where fib(10) is 55.
C30_LocalUnreadableInOwnInitializer ==
  /\ (FirstCallOf(OwnInitializerProgram) /\ Ended) =>
       /\ pc = "idle" /\ result = "INTERPRET_COMPILE_ERROR"
       /\ Len(err) = 3
       /\ \A i \in 1..3 : err[i].text = OwnInitializer /\ err[i].at = " at '%.*s'"
       /\ <<err[1].s, err[2].s, err[3].s>> = <<<<"a">>, <<"b">>, <<"c">>>>
       /\ out = <<>> /\ hist.executed = 0
  /\ (FirstCallOf(LocalRecursionProgram) /\ Ended) => ReturnedOk(<<<<"2">>>>)
  /\ (FirstCallOf(FibProgram) /\ Ended) => ReturnedOk(<<<<"5", "5">>>>)
  /\ (pc = "run" /\ calls = 1) => \A i \in 1..Len(err) : err[i].text # OwnInitializer

\* C30 happens: the three reads are reported and the call has returned.
C30_Witness ==
  /\ FirstCallOf(OwnInitializerProgram)
  /\ pc = "idle" /\ result = "INTERPRET_COMPILE_ERROR"
  /\ Len(err) = 3 /\ err[3].text = OwnInitializer /\ err[3].s = <<"c">>

(***************************************************************************)
(* The scanner alone.  SpecScanner calls initScanner on a source of at     *)
(* most MaxSourceLen characters and then scanToken up to MaxScans times;   *)
(* ret is the token the last call returned.                                *)
(***************************************************************************)
MaxSourceLen == 3

MaxScans == 4

ScannerAlphabet == {"a", "1", " ", "\n", "/", "\"", "@"}

ScannerInputs == UNION {[1..n -> ScannerAlphabet] : n \in 0..MaxSourceLen}

\* initScanner(src)
InitScanner(src) ==
  /\ pc = "idle"
  /\ calls = 0
  /\ source' = src
  /\ scanner' = initScanner
  /\ pc' = "scan"
  /\ calls' = 1
  /\ UNCHANGED <<vm, parser, current, control, out, err, result, hist, table, shadow, ret>>

\* scanToken()
ScanToken ==
  /\ pc = "scan"
  /\ hist.executed < MaxScans
  /\ \E r \in {scanToken(source, scanner)} :
       /\ scanner' = r.scanner
       /\ ret' = r.token
  /\ hist' = [hist EXCEPT !.executed = @ + 1]
  /\ UNCHANGED <<vm, source, parser, current, control, out, err, pc, result, calls, table,
                 shadow>>

NextScanner ==
  \/ \E src \in ScannerInputs : InitScanner(src)
  \/ ScanToken

SpecScanner == Init /\ [][NextScanner]_vars

\* The last call of scanToken returned an eof token.
ReturnedEof == pc = "scan" /\ hist.executed > 0 /\ ret.type = TOKEN_EOF

\* C23: a call of scanToken after one that returned an eof token returns
\* the same eof token and leaves the position and the line counter of the
\* scanner as they were.
C23_EofIsSticky ==
  [][ReturnedEof =>
       /\ ret' = ret
       /\ scanner'.current = scanner.current
       /\ scanner'.line = scanner.line]_vars

\* C23 happens: after the number and the newline, eof was returned by the
\* second call and by the calls after it.
C23_Witness ==
  /\ ReturnedEof
  /\ source = <<"1", "\n">>
  /\ hist.executed = MaxScans
  /\ scanner = [start |-> 2, current |-> 2, line |-> 2]

(***************************************************************************)
(* The end of the session.  vm.objects of the model is the list of the     *)
(* same name: allocateObject puts every object at its head, which is the   *)
(* end of the sequence.  SpecFree is Spec with freeVM called between two   *)
(* calls of interpret or after the last; ret then is the sequence of the   *)
(* objects freeObject has freed, in the order of the calls of FREE.        *)
(***************************************************************************)
\* freeTable: FREE_ARRAY and initTable
freeTable(t) == initTable

\* freeObject: the switch has the one case OBJ_STRING.
freeObject(v, freed, object) ==
  IF v.objects[object].type = "OBJ_STRING" THEN Append(freed, object) ELSE freed

RECURSIVE FreeFrom(_, _, _)
\* The loop of freeObjects from object on, next being the object allocated
\* before it.
FreeFrom(v, freed, object) ==
  IF object = 0 THEN freed
  ELSE FreeFrom(v, freeObject(v, freed, object), object - 1)

freeObjects(v) == FreeFrom(v, <<>>, Newest(v))

FreeVM ==
  /\ pc = "idle"
  /\ vm' = [vm EXCEPT !.globals = freeTable(@), !.strings = freeTable(@)]
  /\ ret' = freeObjects(vm)
  /\ pc' = "freed"
  /\ UNCHANGED <<source, scanner, parser, current, control, out, err, result, calls, hist,
                 table, shadow>>

NextFree ==
  \/ Next
  \/ FreeVM

SpecFree == Init /\ [][NextFree]_vars

\* The number of times freeObject has freed the object.
TimesFreed(object) == Cardinality({i \in 1..Len(ret) : ret[i] = object})

\* C25: after freeVM every object of the list, of whatever kind, has been
\* freed exactly once.
C25_FreeVMFreesEveryObject ==
  pc = "freed" => \A object \in 1..Len(vm.objects) : TimesFreed(object) = 1

(***************************************************************************)
(* The locals of a compiler.                                               *)
(***************************************************************************)
AlreadyDeclared == "Already a variable with this name in this scope."

\* C31: in the duplicate-local program the second a of the block and the
\* second parameter b of f are reported, each at its name, as already
\* declared in the scope, and the c of the inner block, which has the name
\* of the c of the block around it, is not: the call returns
\* INTERPRET_COMPILE_ERROR with these two errors.  A program that declares
\* a name again in a nested scope only compiles and runs.
C31_SameScopeCollisionReported ==
  /\ (FirstCallOf(DuplicateLocalProgram) /\ Ended) =>
       /\ pc = "idle" /\ result = "INTERPRET_COMPILE_ERROR"
       /\ Len(err) = 2
       /\ \A i \in 1..2 : err[i].text = AlreadyDeclared /\ err[i].at = " at '%.*s'"
       /\ <<err[1].s, err[2].s>> = <<<<"a">>, <<"b">>>>
  /\ (FirstCallOf(NestedShadowProgram) /\ Ended) => err = <<>> /\ result = "INTERPRET_OK"

\* C31 happens: the two collisions are reported and the call has returned.
C31_Witness ==
  /\ FirstCallOf(DuplicateLocalProgram)
  /\ pc = "idle" /\ result = "INTERPRET_COMPILE_ERROR"
  /\ Len(err) = 2 /\ err[2].text = AlreadyDeclared /\ err[2].s = <<"b">>

\* The compiler frames both sequences have, one above the other.
SharedFrames(before, after) == 1..(IF Len(before) < Len(after) THEN Len(before) ELSE Len(after))

\* C33: the compiler frames form a stack: a step of the compiler pushes one
\* frame, pops one or leaves their number, and keeps the frames below; the
\* chunk of a function changes only while its frame is the innermost one,
\* before or after the step; and outside compile there is no frame, with or
\* without errors.
C33_CompilerFramesAreAStack ==
  [][/\ pc # "compile" => current = <<>>
     /\ pc' # "compile" => current' = <<>>
     /\ pc' = "compile" =>
          /\ Len(current') >= 1
          /\ Len(current') - Len(current) \in {-1, 0, 1}
          /\ \A ci \in SharedFrames(current, current') :
               current'[ci].function = current[ci].function
          /\ \A ci \in SharedFrames(current, current') \ {Len(current), Len(current')} :
               vm'.objects[current[ci].function].chunk = vm.objects[current[ci].function].chunk
          /\ \A fn \in FunctionObjects(vm) :
               vm'.objects[fn].chunk # vm.objects[fn].chunk =>
                 \/ current # <<>> /\ fn = Cur(World).function
                 \/ fn = current'[Len(current')].function
    ]_vars

\* C33: three function bodies inside one another are being compiled, the
\* innermost has code and the script has none yet
C33_Witness ==
  /\ FirstCallOf(NestedUpvalueProgram)
  /\ pc = "compile"
  /\ Len(current) = 4
  /\ vm.objects[Cur(World).function].chunk.code # <<>>
  /\ vm.objects[current[1].function].chunk.code = <<>>

\* C34: whenever interpret has returned INTERPRET_OK the value stack is
\* empty and no call frame is left.
C34_OkLeavesStackEmpty ==
  (calls > 0 /\ pc = "idle" /\ result = "INTERPRET_OK") =>
    vm.stackTop = 0 /\ vm.frameCount = 0

\* The values on the stack and the active call frames.
StackAndFrames(v) ==
  [stackTop |-> v.stackTop, stack |-> SubSeq(v.stack, 1, v.stackTop),
   frameCount |-> v.frameCount, frames |-> SubSeq(v.frames, 1, v.frameCount)]

\* C35: interpret up to the return of compile, and its return of
\* INTERPRET_COMPILE_ERROR, leave the value stack, the call frames and what
\* every name is bound to in vm.globals as they were; the objects and the
\* interned strings there were are kept.
C35_FailedCompileKeepsTheVM ==
  [][(\/ pc = "idle" /\ pc' = "compile"
      \/ pc = "compile" /\ pc' = "compile"
      \/ pc = "compile" /\ pc' = "idle" /\ result' = "INTERPRET_COMPILE_ERROR") =>
       /\ StackAndFrames(vm') = StackAndFrames(vm)
       /\ GlobalsKept
       /\ vm'.globals = vm.globals
       /\ Len(vm'.objects) >= Len(vm.objects)
       /\ \A o \in StringObjects(vm) : vm'.objects[o] = vm.objects[o]
       /\ \A o \in StringObjects(vm) :
            tableFindString(vm.objects, vm.strings, vm.objects[o].chars, vm.objects[o].hash) = o
              => tableFindString(vm'.objects, vm'.strings, vm.objects[o].chars, vm.objects[o].hash) = o
    ]_vars

\* C35: a program that does not compile has been interpreted on a VM whose
\* value stack an earlier call left one slot high
C35_Witness ==
  /\ hist.programs = <<BlockClosureProgram, SyntaxErrorProgram>>
  /\ pc = "idle"
  /\ result = "INTERPRET_COMPILE_ERROR"
  /\ vm.stackTop = 1
  /\ err # <<>>

\* C39: the location in the line of a compile error follows from the kind
\* of the token alone: the error at the eof token that ends `print` on
\* line 1 says " at end", and the error at the semicolon on line 39 names
\* the semicolon.
C39_LocationByTokenKind ==
  /\ (FirstCallOf(EofErrorProgram) /\ Ended) =>
       err = <<ErrLine("Expect expression.", <<1>>, <<>>, " at end", "")>>
  /\ (FirstCallOf(LineOfEofProgram) /\ Ended) =>
       err = <<ErrLine("Expect expression.", <<39>>, <<";">>, " at '%.*s'", "")>>

(***************************************************************************)
(* The limits of a compiler frame: addLocal and addUpvalue applied until   *)
(* the arrays of the frame are full, to the frame initCompiler makes for   *)
(* a function inside the script.                                           *)
(***************************************************************************)
LimitsSource == <<"a">>

TooManyLocals == "Too many local variables in function."

TooManyUpvalues == "Too many closure variables in function."

\* the upvalue the next capture asks for: one local of the enclosing
\* function after the other while it has locals left, then its upvalue 0;
\* or the first of them once more
Captures(n) == {<<n % UINT8_COUNT, n < UINT8_COUNT>>, <<0, TRUE>>}

\* compile() up to its loop, then function(): initCompiler and beginScope
BeginLimits ==
  /\ pc = "idle"
  /\ calls = 0
  /\ \E phase \in {"locals", "upvalues"} : pc' = phase
  /\ SetWorld(beginScope(initCompiler(CompileStart(World, LimitsSource), "TYPE_FUNCTION")))
  /\ UNCHANGED <<out, result, calls, hist, table, shadow>>

\* declareVariable's call of addLocal, for the token the parser is at
AddLocal ==
  /\ pc = "locals"
  /\ SetWorld(addLocal(World, parser.current))
  /\ UNCHANGED <<out, pc, result, calls, hist, table, shadow>>

\* resolveUpvalue's call of addUpvalue for the innermost compiler
AddUpvalue ==
  /\ pc = "upvalues"
  /\ \E capture \in Captures(Len(Cur(World).upvalues)) :
       /\ SetWorld(addUpvalue(World, Len(current), capture[1], capture[2]))
       /\ shadow' = capture
  /\ UNCHANGED <<out, pc, result, calls, hist, table>>

NextLimits == Next \/ BeginLimits \/ AddLocal \/ AddUpvalue

SpecLimits == Init /\ [][NextLimits]_vars

UpvalueCount(v, c) == v.objects[c.function].upvalueCount

\* C32: every compiler frame holds between 1 and 256 locals and at most 256
\* upvalues; addLocal on a full frame adds nothing and reports "Too many
\* local variables in function.", addUpvalue of a new upvalue on a full
\* frame adds nothing and reports "Too many closure variables in function."
C32_FrameLimits ==
  [][/\ \A ci \in 1..Len(current') :
          /\ Len(current'[ci].locals) >= 1
          /\ Len(current'[ci].locals) <= UINT8_COUNT
          /\ Len(current'[ci].upvalues) = UpvalueCount(vm', current'[ci])
          /\ UpvalueCount(vm', current'[ci]) <= UINT8_COUNT
     /\ (pc = "locals" /\ pc' = "locals") =>
          IF Len(Cur(World).locals) = UINT8_COUNT
            THEN /\ current' = current
                 /\ vm' = vm
                 /\ Len(err') = Len(err) + 1
                 /\ err'[Len(err')].text = TooManyLocals
          ELSE /\ Len(current'[Len(current')].locals) = Len(Cur(World).locals) + 1
               /\ err' = err
     /\ (pc = "upvalues" /\ pc' = "upvalues") =>
          LET ups == Cur(World).upvalues
              known == \E i \in 1..Len(ups) :
                         ups[i] = [index |-> shadow'[1], isLocal |-> shadow'[2]]
          IN  IF known
                THEN /\ current' = current /\ err' = err
                     /\ ups[ret' + 1] = [index |-> shadow'[1], isLocal |-> shadow'[2]]
              ELSE IF Len(ups) = UINT8_COUNT
                THEN /\ current' = current
                     /\ vm' = vm
                     /\ ret' = 0
                     /\ parser.panicMode \/
                          /\ Len(err') = Len(err) + 1
                          /\ err'[Len(err')].text = TooManyUpvalues
              ELSE /\ current'[Len(current')].upvalues =
                        Append(ups, [index |-> shadow'[1], isLocal |-> shadow'[2]])
                   /\ ret' = Len(ups)
                   /\ err' = err
    ]_vars

\* C32: a function's frame with 256 locals has reported the 257th, and one
\* with 256 upvalues has reported the 257th
C32_Witness ==
  /\ pc \in {"locals", "upvalues"}
  /\ Len(current) = 2
  /\ Len(err) = 1
  /\ \/ /\ pc = "locals"
        /\ Len(Cur(World).locals) = UINT8_COUNT
        /\ err[1].text = TooManyLocals
     \/ /\ pc = "upvalues"
        /\ Len(Cur(World).upvalues) = UINT8_COUNT
        /\ shadow = <<0, FALSE>>
        /\ err[1].text = TooManyUpvalues

(***************************************************************************)
(* run as one step.  The programs loop for ever over a block whose local   *)
(* a function captures; run is taken through its loop to the end, for the  *)
(* instructions these programs execute: those that neither call, allocate, *)
(* print nor return.                                                       *)
(***************************************************************************)
StackPrograms == {StackLoopProgram, StackWhileProgram, StackTwoProgram}

\* The turns of the loop of run one step takes at most.
MaxRunSteps == 262144

\* push(value) in run: at vm.stack + STACK_MAX the store is outside the
\* array, which is undefined behaviour.  m is [vm, pc, executed].
RunPush(m, n, value) ==
  [vm |-> push(Skip(m.vm, n), value),
   pc |-> IF m.vm.stackTop = STACK_MAX THEN "undefined" ELSE "run",
   executed |-> m.executed + 1]

RunOn(m, v) == [vm |-> v, pc |-> "run", executed |-> m.executed + 1]

\* One turn of the loop of run: READ_BYTE and the case of the switch.  At an
\* instruction not taken here the machine is left as it is.
RunInstruction(m, instruction, short) ==
  IF instruction = OP_NIL THEN RunPush(m, 1, NIL_VAL)
  ELSE IF instruction = OP_TRUE THEN RunPush(m, 1, BOOL_VAL(TRUE))
  ELSE IF instruction = OP_FALSE THEN RunPush(m, 1, BOOL_VAL(FALSE))
  ELSE IF instruction = OP_POP THEN RunOn(m, pop(Skip(m.vm, 1)))
  ELSE IF instruction = OP_JUMP THEN RunOn(m, Skip(m.vm, 3 + short))
  ELSE IF instruction = OP_JUMP_IF_FALSE
    THEN RunOn(m, Skip(m.vm, IF isFalsey(peekValue(m.vm, 0)) THEN 3 + short ELSE 3))
  ELSE IF instruction = OP_LOOP THEN RunOn(m, Skip(m.vm, 3 - short))
  ELSE IF instruction = OP_CLOSE_UPVALUE THEN RunOn(m, Skip(m.vm, 1))
  ELSE m

\* READ_SHORT at the instruction at ip of code, 0 where the instruction has
\* no operand of two bytes
ShortAt(code, ip) ==
  IF code[ip + 1] \in {OP_JUMP, OP_JUMP_IF_FALSE, OP_LOOP}
    THEN code[ip + 2] * 256 + code[ip + 3]
  ELSE 0

RunTurn(m) ==
  IF m.pc # "run" THEN m
  ELSE IF Frame(m.vm).ip >= Len(Chunk(m.vm).code) THEN [m EXCEPT !.pc = "undefined"]
  ELSE RunInstruction(m, Chunk(m.vm).code[Frame(m.vm).ip + 1],
                      ShortAt(Chunk(m.vm).code, Frame(m.vm).ip))

\* n turns of the loop, or fewer when run has ended
RECURSIVE RunFor(_, _)
RunFor(m, n) ==
  IF n = 0 \/ m.pc # "run" THEN m
  ELSE IF n = 1 THEN RunTurn(m)
  ELSE Strict(RunFor(m, n \div 2), LAMBDA half : RunFor(half, n - n \div 2))

\* run
RunLoop ==
  /\ pc = "run"
  /\ \E m \in {RunFor([vm |-> vm, pc |-> "run", executed |-> hist.executed], MaxRunSteps)} :
       /\ m.executed > hist.executed
       /\ vm' = m.vm
       /\ pc' = m.pc
       /\ hist' = [hist EXCEPT !.executed = m.executed]
       /\ IF m.pc = "undefined" THEN result' \in UndefinedOutcomes ELSE UNCHANGED result
  /\ UNCHANGED <<source, scanner, parser, current, control, out, err, calls, table, shadow, ret>>

NextStack ==
  \/ \E src \in StackPrograms : Interpret(src)
  \/ Declaration
  \/ CompileStep
  \/ CompileReturn
  \/ RunLoop

SpecStack == Init /\ [][NextStack]_vars

\* C37: the value stack never holds more than STACK_MAX values, for every
\* program: push is never executed with stackTop at the end of the array.
C37_StackWithinCapacity == vm.stackTop <= STACK_MAX

(***************************************************************************)
(* compile on token streams, valid or not: every sequence of at most       *)
(* MaxTokens lexemes, a blank after each.  compile is one call of          *)
(* interpret that nothing interrupts: once called it takes its steps,      *)
(* which is what the fairness says.                                        *)
(***************************************************************************)
MaxTokens == 3

\* @ is no character of the language: the scanner makes an error token of it
TokenWords ==
  {<<"(">>, <<")">>, <<"{">>, <<"}">>, <<";">>, <<"=">>, <<"+">>, <<"1">>, <<"a">>, <<"@">>,
   <<"f", "u", "n">>, <<"v", "a", "r">>, <<"i", "f">>, <<"f", "o", "r">>,
   <<"w", "h", "i", "l", "e">>, <<"p", "r", "i", "n", "t">>}

RECURSIVE TokenStreams(_)
TokenStreams(n) ==
  IF n = 0 THEN {<<>>}
  ELSE {<<>>} \cup {word \o <<" ">> \o rest : word \in TokenWords, rest \in TokenStreams(n - 1)}

NextCompile ==
  \/ \E src \in TokenStreams(MaxTokens) : calls = 0 /\ Interpret(src)
  \/ Declaration
  \/ CompileStep
  \/ CompileReturn

SpecCompile ==
  Init /\ [][NextCompile]_vars /\ WF_vars(Declaration \/ CompileStep \/ CompileReturn)

\* The steps compile is followed for at most.
MaxCompileSteps == 64

\* compile is at the end of its loop: match(TOKEN_EOF) succeeds
CompileEnded(w) == w.control = <<>> /\ check(w, TOKEN_EOF)

\* One step of compile: the loop calls declaration, or the innermost
\* function of the compiler goes on
CompileTurn(w) ==
  IF w.control = <<>> THEN TailCall(w, Enter("declaration")) ELSE Step(w)

\* compile after at most n steps, stopped at the end of its loop or when
\* the activation at depth of w.control has returned.
RECURSIVE CompileFor(_, _, _)
CompileFor(w, depth, n) ==
  IF n = 0 \/ CompileEnded(w) \/ Len(w.control) < depth THEN w
  ELSE IF n = 1 THEN CompileTurn(w)
  ELSE Strict(CompileFor(w, depth, n \div 2),
              LAMBDA half : CompileFor(half, depth, n - n \div 2))

TokenTypes == 0..TOKEN_EOF

\* The tokens synchronize stops in front of.
StatementStarts ==
  {TOKEN_CLASS, TOKEN_FUN, TOKEN_VAR, TOKEN_FOR, TOKEN_IF, TOKEN_WHILE, TOKEN_PRINT, TOKEN_RETURN}

\* The loop of compile ends within MaxCompileSteps steps; declaration is
\* called only with a token that is not eof, and has consumed a token
\* when it returns; no activation is a call of a null rule, and every
\* token parsePrecedence loops on has an infix rule.
CompileSafe ==
  pc = "compile" =>
    /\ control = <<>> => CompileEnded(CompileFor(World, 0, MaxCompileSteps))
    /\ \A i \in 1..Len(control) : control[i].fn # ""
    /\ \A type \in TokenTypes : getRule(type).precedence # PREC_NONE => getRule(type).infix # ""
    /\ (control # <<>> /\ control[Len(control)] = Enter("declaration")) =>
         /\ ~check(World, TOKEN_EOF)
         /\ Len(CompileFor(World, Len(control), MaxCompileSteps).control) < Len(control)
         /\ CompileFor(World, Len(control), MaxCompileSteps).parser.current.start
              > parser.current.start

\* synchronize returns at eof, after a semicolon or in front of a
\* statement; block at eof reports the missing brace and returns; a step
\* of compile is no stuttering step.
CompileStops ==
  pc = "compile" =>
    /\ vars' # vars
    /\ control # <<>> =>
         /\ (control[Len(control)] = At("declaration", "end", <<>>) /\ parser.panicMode) =>
              /\ Len(control') = Len(control) - 1
              /\ \/ parser'.current.type = TOKEN_EOF
                 \/ parser'.previous.type = TOKEN_SEMICOLON
                 \/ parser'.current.type \in StatementStarts
         /\ (control[Len(control)].fn = "block" /\ check(World, TOKEN_EOF)) =>
              /\ Len(control') = Len(control) - 1
              /\ parser'.hadError
              /\ parser'.current.type = TOKEN_EOF

\* C38: compile returns for every token stream, valid or not, within
\* MaxCompileSteps steps: a call of declaration is made with a token that
\* is not eof and consumes at least one token, synchronize stops at eof at
\* the latest, block stops at eof when the closing brace is missing, and
\* parsePrecedence never calls a null infix rule.
C38_CompileTerminates ==
  /\ []CompileSafe
  /\ [][CompileStops]_vars

\* C38 happens: compile has returned on three open braces with nothing
\* after them, having reported the missing brace
C38_Witness ==
  /\ source = <<"{", " ", "{", " ", "{", " ">>
  /\ pc = "idle"
  /\ result = "INTERPRET_COMPILE_ERROR"
  /\ \E i \in 1..Len(err) : err[i].text = "Expect '}' after block."
=============================================================================
